---- MODULE Spec2Model ----
(***************************************************************************)
(* Model of the canvas engine's ViewportTransform (pan / zoom camera).     *)
(*                                                                         *)
(* JavaScript numbers are modelled as exact extended rationals: a pair     *)
(* <<n, d>> in lowest terms with d >= 0, where d = 0 encodes the IEEE      *)
(* special values (<<1,0>> = +Infinity, <<-1,0>> = -Infinity, <<0,0>> =    *)
(* NaN).  Rounding and the sign of zero are not modelled.                  *)
(***************************************************************************)
EXTENDS Integers, Sequences, FiniteSets, TLC

(***************************************************************************)
(* Number arithmetic                                                       *)
(***************************************************************************)
RECURSIVE Gcd(_, _)
Gcd(a, b) == IF b = 0 THEN a ELSE Gcd(b, a % b)

IAbs(n) == IF n < 0 THEN -n ELSE n

Sign(n) == IF n > 0 THEN 1 ELSE IF n < 0 THEN -1 ELSE 0

Norm(n, d) ==
    IF d = 0 THEN <<Sign(n), 0>>
    ELSE LET g == Gcd(IAbs(n), IAbs(d))
             s == IF d < 0 THEN -1 ELSE 1
         IN  <<(s * n) \div g, (s * d) \div g>>

R(n) == <<n, 1>>

NaN == <<0, 0>>

PosInf == <<1, 0>>

IsNaN(a) == a = NaN

IsFinite(a) == a[2] # 0

Neg(a) == <<-a[1], a[2]>>

Add(a, b) ==
    IF a[2] = 0 /\ b[2] = 0
    THEN (IF a = b THEN a ELSE NaN)
    ELSE IF a[2] = 0 THEN a
    ELSE IF b[2] = 0 THEN b
    ELSE LET g == Gcd(a[2], b[2])
         IN  Norm(a[1] * (b[2] \div g) + b[1] * (a[2] \div g), (a[2] \div g) * b[2])

Sub(a, b) == Add(a, Neg(b))

Mul(a, b) ==
    LET g1 == Gcd(IAbs(a[1]), b[2])
        g2 == Gcd(IAbs(b[1]), a[2])
    IN  IF a[2] = 0 \/ b[2] = 0
        THEN <<Sign(a[1]) * Sign(b[1]), 0>>
        ELSE Norm((a[1] \div g1) * (b[1] \div g2), (a[2] \div g2) * (b[2] \div g1))

Recip(a) == Norm(a[2], a[1])

Div(a, b) == Mul(a, Recip(b))

Lt(a, b) ==
    /\ ~IsNaN(a)
    /\ ~IsNaN(b)
    /\ IF a[2] = 0 \/ b[2] = 0
       THEN (IF a[2] = 0 /\ b[2] = 0 THEN a[1] < b[1]
             ELSE IF a[2] = 0 THEN a[1] < 0
             ELSE b[1] > 0)
       ELSE Sub(a, b)[1] < 0

Gt(a, b) == Lt(b, a)

Le(a, b) == ~IsNaN(a) /\ ~IsNaN(b) /\ ~Lt(b, a)

MathMin(a, b) == IF IsNaN(a) \/ IsNaN(b) THEN NaN ELSE IF Lt(b, a) THEN b ELSE a

MathMax(a, b) == IF IsNaN(a) \/ IsNaN(b) THEN NaN ELSE IF Lt(a, b) THEN b ELSE a

MathAbs(a) == <<IAbs(a[1]), a[2]>>

ISqrt(n) == CHOOSE r \in 0..n : r * r = n

MathHypot(dx, dy) ==
    LET s == Add(Mul(dx, dx), Mul(dy, dy))
    IN  IF s[2] = 0 THEN MathAbs(s) ELSE <<ISqrt(s[1]), ISqrt(s[2])>>

Vec(x, y) == <<x, y>>

Null == <<>>

Undefined == <<>>

(***************************************************************************)
(* Bounds of the model                                                     *)
(***************************************************************************)
MaxCalls == 2

MaxTicks == 4

\* Numerators and denominators of the camera stay below this (TLC's integers
\* are 32 bits wide): a tick or a zoom input is only taken from such a state.
NumLimit == 20000

\* Calls and events in a behaviour of the gesture specification.
MaxGestureCalls == 5

\* Each culling counter stops here.
MaxItems == 3

\* Calls of the LOD hook's functions in a behaviour.
MaxLODCalls == 4

\* Calls of DayStackLayouter.compute in a behaviour.
MaxLayoutCalls == 2

\* Calls of the inactivity hook's functions by the host, and steps of the
\* clock (ClockStep ms each) while the hook is observed.
MaxTimerCalls == 3

MaxClockSteps == 3

\* Calls of the image cache's functions by the host, and high-resolution
\* loads that reach the network.
MaxCacheCalls == 3

MaxLoads == 2

(***************************************************************************)
(* Inputs: the host's calls and the browser's events                       *)
(***************************************************************************)
Bounds(w, h, x, y, mih) ==
    [width |-> R(w), height |-> R(h), minX |-> R(x), minY |-> R(y),
     maxX |-> R(x + w), maxY |-> R(y + h), maxItemHeight |-> mih]

ContentBoundsInputs ==
    { Bounds(1000, 1000, 0, 0, Undefined),
      Bounds(1000, 500, -100, 50, R(200)),
      Bounds(1000, 1000, 0, 0, R(5000)),
      Bounds(0, 0, 0, 0, R(0)) }

InitialCanvas == Vec(R(500), R(500))

CanvasSizes == { InitialCanvas, Vec(R(800), R(400)), Vec(R(0), R(0)) }

\* speedFactor is a public field (0.15 unless the host assigns it).  The model
\* runs with 1/2: the denominators of the camera grow as powers of the
\* factor's denominator, and 3/20 leaves 32-bit integers within a few ticks.
SpeedFactors == { <<1, 2>> }

CanvasRect == [left |-> R(10), top |-> R(20)]

\* Events as the browser delivers them.  A touchstart adds touch points, a
\* touchmove carries the points now down, a touchend / touchcancel removes one
\* (activeTouches counts them); mouse and wheel events come in any order.
Pt(x, y) == [clientX |-> R(x), clientY |-> R(y)]

WheelEvents ==
    { [deltaY |-> R(-100), clientX |-> R(260), clientY |-> R(270)],
      [deltaY |-> <<-125, 4>>, clientX |-> R(110), clientY |-> R(70)] }

MouseDownEvents ==
    { [button |-> 0, ctrlKey |-> FALSE, metaKey |-> FALSE, clientX |-> R(100), clientY |-> R(100)],
      [button |-> 2, ctrlKey |-> FALSE, metaKey |-> FALSE, clientX |-> R(100), clientY |-> R(100)],
      [button |-> 0, ctrlKey |-> TRUE, metaKey |-> FALSE, clientX |-> R(120), clientY |-> R(80)] }

MouseMoveEvents == { Pt(130, 90) }

TouchStartEvents ==
    { <<Pt(100, 100)>>,
      <<Pt(100, 100), Pt(200, 100)>>,
      <<Pt(100, 100), Pt(200, 100), Pt(300, 300)>> }

TouchMoveEvents ==
    { <<Pt(150, 130)>>,
      <<Pt(100, 100), Pt(250, 100)>>,
      <<Pt(100, 100), Pt(130, 140)>> }

CenterOnCalls ==
    { [worldX |-> R(200), worldY |-> R(100), targetScale |-> Undefined],
      [worldX |-> R(200), worldY |-> R(100), targetScale |-> <<3, 2>>] }

SetImmediateCalls ==
    { [scale |-> <<3, 4>>, offsetX |-> R(30), offsetY |-> R(-20)] }

(***************************************************************************)
(* State of a ViewportTransform and of the canvas it is attached to        *)
(***************************************************************************)
VARIABLES
    scale, offset,                 \* current interpolated camera
    targetScale, targetOffset,     \* where the camera is heading
    zoomFocus, zoomFocusWorld,     \* pinned screen point / world point, or Null
    speedFactor,
    fitToContentScale, maxScale,
    lockVerticalPan,
    contentBounds,                 \* Null or <<bounds>>
    viewportWidth, viewportHeight,
    isDragging, dragStart, offsetStart,
    touchStartDistance, touchStartScale, touchStartCenter,
    canvas,                        \* <<width, height>> of the drawing surface
    activeTouches,                 \* touch points now on the surface (browser)
    hist,                          \* last call or event, and the ticks since
    nCalls, nTicks,                \* calls / ticks made so far
    budget                         \* calls a behaviour may make

camera == <<scale, offset, targetScale, targetOffset, zoomFocus, zoomFocusWorld>>

limits == <<fitToContentScale, maxScale, contentBounds, viewportWidth, viewportHeight>>

drag == <<isDragging, dragStart, offsetStart>>

pinch == <<touchStartDistance, touchStartScale, touchStartCenter>>

viewport == <<camera, limits, drag, pinch, speedFactor, lockVerticalPan, canvas,
              activeTouches, hist, nCalls, nTicks, budget>>

(***************************************************************************)
(* State of a ViewportCulling built on the viewport, and of the record map *)
(* of useLODTransitions                                                    *)
(***************************************************************************)
VARIABLES
    bounds,                        \* visible rectangle in world coordinates
    stats,                         \* [total, rendered, culled]
    canvasWidth, canvasHeight,     \* constructor arguments of the culler
    cullCall                       \* last culler call, its argument and result

culler == <<bounds, stats, canvasWidth, canvasHeight, cullCall>>

VARIABLES
    lodTransitionState,            \* item id -> Null or <<record>>
    cardLODThreshold, transitionSpeed,
    lodCall,                       \* last hook call and its arguments
    lodResult,                     \* what that call returned: Null or <<record>>
    lodSeen,                       \* item id -> "never", "live" (passed to
                                   \* updateLODState since the last clear) or "cleared"
    nLODCalls

lod == <<lodTransitionState, cardLODThreshold, transitionSpeed, lodCall, lodResult,
         lodSeen, nLODCalls>>

VARIABLES
    layoutConfig,                  \* constructor argument of the layouter
    sortEngine,                    \* the build's Array.prototype.sort
    nodeTargets,                   \* node id -> Null or <<arguments of its last setTargets call>>
    axisLabels,                    \* the layouter's only field
    layoutGroups,                  \* orderedGroups of the last compute()
    layoutWrites,                  \* node id -> setTargets calls in the last compute()
    layoutCall,                    \* Null or <<nodes argument of the last compute()>>
    nodesAfter,                    \* the caller's array when that call returned
    nLayoutCalls

layout == <<layoutConfig, sortEngine, nodeTargets, axisLabels, layoutGroups,
            layoutWrites, layoutCall, nodesAfter, nLayoutCalls>>

(***************************************************************************)
(* State of a component that uses useInactivityTimer                      *)
(***************************************************************************)
VARIABLES
    isActive,                      \* the hook's React state, latest value
    isActiveRendered,              \* isActive as the closures of the last render hold it
    timerRef,                      \* timerRef.current: Null or <<timeout id>>
    timeouts,                      \* pending timeouts of the window: set of [id, due]
    nextTimeoutId,                 \* what window.setTimeout returns next
    clock,                         \* ms since the component mounted
    mounted,
    autoStart,
    activityStarts,                \* invocations of onActivityStart
    timeoutsFired,                 \* invocations of onTimeout
    firedIds,                      \* ids of the timeouts whose callback has run
    lastStart,                     \* Null, or <<clock>> of the last startTimer since
                                   \* the last stopTimer
    timerCall,                     \* last step of the hook: [op, id]
    nTimerCalls

inactivity == <<isActive, isActiveRendered, timerRef, timeouts, nextTimeoutId,
                clock, mounted, autoStart, activityStarts, timeoutsFired,
                firedIds, lastStart, timerCall, nTimerCalls>>

(***************************************************************************)
(* State of a component that uses useImageCache                           *)
(***************************************************************************)
VARIABLES
    lowResCache,                   \* lowResCache.current: url -> Null or <<image>>
    highResCache,                  \* highResCache.current: url -> Null or <<image>>
    loads,                         \* loadHighResImage calls in flight: set of [id, url, stage]
    resolved,                      \* settled promises: load id -> Null or <<image>>
    nextLoadId,
    cacheCall,                     \* last step of the cache: [op, url, result]
    callsSinceClear,               \* Null before the first clearCache(), then <<number of
                                   \* setLowResImage / loadHighResImage calls since the last>>
    nCacheCalls

imageCache == <<lowResCache, highResCache, loads, resolved, nextLoadId, cacheCall,
                callsSinceClear, nCacheCalls>>

hooks == <<inactivity, imageCache>>

vars == <<viewport, culler, lod, layout, hooks>>

Zero2 == Vec(R(0), R(0))

Fits(a) == IAbs(a[1]) <= NumLimit /\ a[2] <= NumLimit

FitsVec(v) == IF v = Null THEN TRUE ELSE Fits(v[1]) /\ Fits(v[2])

CameraFits ==
    /\ Fits(scale)
    /\ Fits(targetScale)
    /\ FitsVec(offset)
    /\ FitsVec(targetOffset)
    /\ FitsVec(zoomFocusWorld)

Hist(op, a, b, s) ==
    [op |-> op, a |-> a, b |-> b, s |-> s, ticks |-> 0, pts |-> <<>>,
     base |-> <<>>]

Points(t) == [i \in 1..Len(t) |-> Vec(t[i].clientX, t[i].clientY)]

(***************************************************************************)
(* Pure helpers of the class                                               *)
(***************************************************************************)
HasMaxItemHeight(cb) ==
    /\ cb.maxItemHeight # Undefined
    /\ cb.maxItemHeight # R(0)
    /\ Gt(cb.maxItemHeight, R(0))

UseFallback(cb, vw, vh) == cb = Null \/ vw = R(0) \/ vh = R(0)

CalcFitToContentScale(cb, vw, vh) ==
    IF UseFallback(cb, vw, vh) THEN R(1)
    ELSE MathMin(Div(vw, cb[1].width), Div(vh, cb[1].height))

CalcMaxScaleFromWidth(cb, vw, vh) ==
    IF UseFallback(cb, vw, vh) THEN R(2)
    ELSE IF HasMaxItemHeight(cb[1])
         THEN Div(Mul(vw, R(2)), cb[1].maxItemHeight)
         ELSE Mul(CalcFitToContentScale(cb, vw, vh), R(200))

CalcMaxScale(cb, vw, vh) ==
    IF UseFallback(cb, vw, vh) THEN R(2)
    ELSE IF HasMaxItemHeight(cb[1])
         THEN Div(Mul(vh, R(2)), cb[1].maxItemHeight)
         ELSE Mul(CalcFitToContentScale(cb, vw, vh), R(200))

MinScaleFactor == <<9, 10>>

minScale == Mul(fitToContentScale, MinScaleFactor)

ClampScale(x) == MathMax(minScale, MathMin(maxScale, x))

LerpOvershoots(cur, tgt, f) == Add(cur, Mul(Sub(tgt, cur), Add(R(1), f)))

Lerp(cur, tgt, f) == Add(cur, Mul(Sub(tgt, cur), f))

PinEpsilon == <<1, 100>>

PinReleased(s, t) == Lt(MathAbs(Sub(s, t)), PinEpsilon)

PinnedOffsetAtOldScale(focus, world, s) ==
    Vec(Sub(focus[1], Mul(world[1], scale)), Sub(focus[2], Mul(world[2], scale)))

PinnedOffset(focus, world, s) ==
    Vec(Sub(focus[1], Mul(world[1], s)), Sub(focus[2], Mul(world[2], s)))

screenToWorld(sx, sy) ==
    Vec(Div(Sub(sx, offset[1]), scale), Div(Sub(sy, offset[2]), scale))

WheelZoomSpeed == <<1, 500>>

WheelDelta(e) == Mul(Neg(e.deltaY), WheelZoomSpeed)

PanOffsetLockResetsY(e) ==
    Vec(Add(offsetStart[1], Sub(e.clientX, dragStart[1])),
        IF lockVerticalPan THEN R(0) ELSE Add(offsetStart[2], Sub(e.clientY, dragStart[2])))

PanOffset(e) ==
    Vec(Add(offsetStart[1], Sub(e.clientX, dragStart[1])),
        Add(offsetStart[2],
            IF lockVerticalPan THEN R(0) ELSE Sub(e.clientY, dragStart[2])))

IsPanStart(e) == e.button = 1 \/ e.button = 2 \/ e.ctrlKey \/ e.metaKey

ResetOffsetAxisIgnoresOrigin(size, min, view) ==
    LET scaled == Mul(size, fitToContentScale)
    IN  IF Lt(scaled, view)
        THEN Div(Sub(view, scaled), R(2))
        ELSE Mul(Neg(min), fitToContentScale)

ResetOffsetAxis(size, min, view) ==
    LET scaled == Mul(size, fitToContentScale)
    IN  IF Lt(scaled, view)
        THEN Sub(Div(Sub(view, scaled), R(2)), Mul(min, fitToContentScale))
        ELSE Mul(Neg(min), fitToContentScale)

ResetOffset ==
    IF contentBounds = Null THEN Zero2
    ELSE Vec(ResetOffsetAxis(contentBounds[1].width, contentBounds[1].minX, viewportWidth),
             ResetOffsetAxis(contentBounds[1].height, contentBounds[1].minY, viewportHeight))

CenterScale(c) == IF c.targetScale = Undefined THEN targetScale ELSE c.targetScale

CenterOffset(c) ==
    Vec(Sub(Div(viewportWidth, R(2)), Mul(c.worldX, CenterScale(c))),
        Sub(Div(viewportHeight, R(2)), Mul(c.worldY, CenterScale(c))))

(***************************************************************************)
(* Construction                                                            *)
(***************************************************************************)
Constructed ==
    /\ canvas = InitialCanvas
    /\ speedFactor \in SpeedFactors
    /\ scale = R(1)
    /\ offset = Zero2
    /\ targetScale = R(1)
    /\ targetOffset = Zero2
    /\ zoomFocus = Null
    /\ zoomFocusWorld = Null
    /\ fitToContentScale = R(1)
    /\ maxScale = R(2)
    /\ lockVerticalPan = FALSE
    /\ contentBounds = Null
    /\ viewportWidth = canvas[1]
    /\ viewportHeight = canvas[2]
    /\ isDragging = FALSE
    /\ dragStart = Zero2
    /\ offsetStart = Zero2
    /\ touchStartDistance = R(0)
    /\ touchStartScale = R(1)
    /\ touchStartCenter = Zero2
    /\ activeTouches = 0
    /\ hist = Hist("new", Zero2, Zero2, R(0))
    /\ nCalls = 0
    /\ nTicks = 0

(***************************************************************************)
(* ViewportCulling: pure parts and construction                            *)
(***************************************************************************)
Rect(x, y, w, h) == [x |-> R(x), y |-> R(y), width |-> R(w), height |-> R(h)]

\* Items around the rectangle [0,100] x [0,100]: apart, overlapping, touching
\* an edge from either side, touching a corner, and of zero size.
WorldRectInputs ==
    { Rect(150, 0, 10, 10), Rect(95, 0, 10, 10), Rect(100, 0, 10, 10),
      Rect(-10, 0, 10, 10), Rect(-20, 0, 10, 10), Rect(100, 100, 5, 5),
      Rect(0, 150, 10, 10), Rect(50, -10, 0, 10), Rect(40, 101, 10, 10),
      Rect(50, 50, 0, 0) }

\* Cameras the host puts the viewport in before updateBounds(): the first
\* shows exactly [0,100] x [0,100] on the 500x500 surface.
CullerCameras ==
    { [scale |-> R(5), offsetX |-> R(0), offsetY |-> R(0)],
      [scale |-> <<1, 2>>, offsetX |-> R(-50), offsetY |-> R(20)] }

calculateBounds ==
    LET topLeft == screenToWorld(R(0), R(0))
        bottomRight == screenToWorld(canvasWidth, canvasHeight)
    IN  [left |-> topLeft[1], right |-> bottomRight[1],
         top |-> topLeft[2], bottom |-> bottomRight[2]]

IsVisibleUnlessTouching(rect, b) ==
    ~ \/ Le(Add(rect.x, rect.width), b.left)
      \/ ~Lt(rect.x, b.right)
      \/ Le(Add(rect.y, rect.height), b.top)
      \/ ~Lt(rect.y, b.bottom)

IsVisible(rect, b) ==
    ~ \/ Lt(Add(rect.x, rect.width), b.left)
      \/ Gt(rect.x, b.right)
      \/ Lt(Add(rect.y, rect.height), b.top)
      \/ Gt(rect.y, b.bottom)

EfficiencyUnguarded(st) == Mul(Div(R(st.culled), R(st.total)), R(100))

Efficiency(st) ==
    IF st.total = 0 THEN R(0)
    ELSE Mul(Div(R(st.culled), R(st.total)), R(100))

NoStats == [total |-> 0, rendered |-> 0, culled |-> 0]

CullCall(op, rect, visible, efficiency) ==
    [op |-> op, rect |-> rect, visible |-> visible, efficiency |-> efficiency]

CullerConstructed ==
    /\ canvasWidth = canvas[1]
    /\ canvasHeight = canvas[2]
    /\ bounds = calculateBounds
    /\ stats = NoStats
    /\ cullCall = CullCall("new", Rect(0, 0, 0, 0), FALSE, R(0))

(***************************************************************************)
(* useLODTransitions: pure parts and construction                          *)
(***************************************************************************)
DEFAULT_CARD_LOD_THRESHOLD == R(80)

DEFAULT_TRANSITION_SPEED == <<3, 20>>

ItemIds == {"a", "b"}

ScreenWidths == { R(79), R(80), R(200) }

TransitionSpeeds == { DEFAULT_TRANSITION_SPEED, <<1, 2>> }

LODTargetModeAbove(w) == IF Gt(w, cardLODThreshold) THEN "detail" ELSE "image-only"

LODTargetMode(w) == IF ~Lt(w, cardLODThreshold) THEN "detail" ELSE "image-only"

TargetImageHeight(mode) == IF mode = "detail" THEN <<9, 20>> ELSE R(1)

TargetTextOpacity(mode) == IF mode = "detail" THEN R(1) ELSE R(0)

InitialLODStateFromDetail(mode) ==
    [imageHeightPercent |-> Lerp(<<9, 20>>, TargetImageHeight(mode), transitionSpeed),
     textOpacity |-> Lerp(R(1), TargetTextOpacity(mode), transitionSpeed),
     targetMode |-> mode]

InitialLODState(mode) ==
    [imageHeightPercent |-> TargetImageHeight(mode),
     textOpacity |-> TargetTextOpacity(mode),
     targetMode |-> mode]

LODCall(op, id, w) == [op |-> op, id |-> id, w |-> w]

LODConstructed(threshold, speed) ==
    /\ lodTransitionState = [id \in ItemIds |-> Null]
    /\ cardLODThreshold = threshold
    /\ transitionSpeed = speed
    /\ lodCall = LODCall("new", "a", R(0))
    /\ lodResult = Null
    /\ lodSeen = [id \in ItemIds |-> "never"]
    /\ nLODCalls = 0

(***************************************************************************)
(* DayStackLayouter: pure parts                                            *)
(***************************************************************************)
DEFAULT_AXIS_WIDTH == R(220)

DEFAULT_AXIS_PADDING == R(24)

DEFAULT_COLUMN_GAP == R(24)

DEFAULT_ROW_GAP == R(40)

DEFAULT_CARD_WIDTH == R(280)

DEFAULT_CARD_HEIGHT == R(180)

\* The caller's nodes, by id: what getDayKey (Null, or the string wrapped in a
\* tuple), getDayLabel and getSortValue return for node.data, and a rank
\* that the caller's eventSort compares.
LayoutItems ==
    << [key |-> <<"Mon">>, label |-> "Monday",      sortValue |-> R(1), rank |-> 2],
       [key |-> <<"Mon">>, label |-> "Monday late", sortValue |-> R(2), rank |-> 1],
       [key |-> <<"Tue">>, label |-> "Tuesday",     sortValue |-> R(3), rank |-> 1],
       [key |-> Null,      label |-> "no day",      sortValue |-> R(9), rank |-> 0],
       [key |-> <<"">>,    label |-> "empty day",   sortValue |-> R(8), rank |-> 0],
       [key |-> <<"Wed">>, label |-> "Wednesday",   sortValue |-> NaN,  rank |-> 3],
       [key |-> <<"Thu">>, label |-> "Thursday",    sortValue |-> R(3), rank |-> 1],
       [key |-> <<"Wed">>, label |-> "Wednesday 5", sortValue |-> R(5), rank |-> 2] >>

NodeIds == 1..Len(LayoutItems)

\* The node lists passed to compute().
LayoutInputs ==
    { <<>>, <<1>>, <<4>>, <<5, 4>>, <<2, 1>>, <<1, 2, 3>>, <<3, 1, 2>>,
      <<1, 4, 5, 2>>, <<3, 5, 1>>, <<3, 7>>, <<7, 3>>, <<7, 2, 1>>,
      <<6, 1>>, <<1, 6, 3>>, <<3, 6, 1>>, <<8, 6>>, <<6, 3, 8>> }

\* Constructor arguments: nothing but the extraction functions, or every
\* option set (an axisPadding of 0, a weekday daySort, a rank eventSort).
LayoutConfigs ==
    { [axisWidth |-> Undefined, axisPadding |-> Undefined, columnGap |-> Undefined,
       rowGap |-> Undefined, cardWidth |-> Undefined, cardHeight |-> Undefined,
       daySort |-> Undefined, eventSort |-> Undefined],
      [axisWidth |-> R(100), axisPadding |-> R(0), columnGap |-> R(10),
       rowGap |-> R(5), cardWidth |-> R(50), cardHeight |-> R(30),
       daySort |-> <<"weekday">>, eventSort |-> <<"rank">>] }

\* Array.prototype.sort of the build: both are stable sorts for a consistent
\* comparator; for an inconsistent one the language leaves the order to the
\* implementation.
SortEngines == {"insertion", "binaryInsertion"}

\* a ?? b
NullishOrZero(v, d) == IF v = Null \/ v = R(0) THEN d ELSE v

Nullish(v, d) == IF v = Null THEN d ELSE v

\* !key
DayKeyMissingOnlyNullish(key) == key = Null

DayKeyMissing(key) == IF key = Null THEN TRUE ELSE key[1] = ""

\* The comparators: the default of orderedGroups.sort, and the caller's
\* daySort (groups by weekday) and eventSort (nodes by the rank of their data).
CompareAscending(cmp, a, b) ==
    LET weekday(key) == CASE key = "Mon" -> 1 [] key = "Tue" -> 2
                          [] key = "Wed" -> 3 [] key = "Thu" -> 4
    IN  CASE cmp = "sortValue" -> Sub(a.sortValue, b.sortValue)
          [] cmp = "weekday"   -> R(weekday(a.key) - weekday(b.key))
          [] cmp = "rank"      -> R(LayoutItems[a].rank - LayoutItems[b].rank)

Compare(cmp, a, b) ==
    LET weekday(key) == CASE key = "Mon" -> 1 [] key = "Tue" -> 2
                          [] key = "Wed" -> 3 [] key = "Thu" -> 4
    IN  CASE cmp = "sortValue" -> Sub(b.sortValue, a.sortValue)
          [] cmp = "weekday"   -> R(weekday(a.key) - weekday(b.key))
          [] cmp = "rank"      -> R(LayoutItems[a].rank - LayoutItems[b].rank)

\* arr.sort(cmp): a comparator result of NaN counts as 0.  "insertion" inserts
\* each element after the last one that does not compare greater;
\* "binaryInsertion" takes the initial run (reversed when strictly descending)
\* and places the remaining elements by binary search.
ArraySort(arr, cmp, engine) ==
    LET n == Len(arr)
        Ord(a, b) == Sign(Compare(cmp, a, b)[1])
        RECURSIVE InsertLinear(_, _)
        InsertLinear(sorted, x) ==
            IF sorted = <<>> THEN <<x>>
            ELSE LET last == sorted[Len(sorted)]
                 IN  IF Ord(last, x) > 0
                     THEN Append(InsertLinear(SubSeq(sorted, 1, Len(sorted) - 1), x), last)
                     ELSE Append(sorted, x)
        RECURSIVE SearchBinary(_, _, _, _)
        SearchBinary(sorted, pivot, left, right) ==
            IF left >= right THEN left
            ELSE LET mid == left + ((right - left) \div 2)
                 IN  IF Ord(pivot, sorted[mid + 1]) < 0
                     THEN SearchBinary(sorted, pivot, left, mid)
                     ELSE SearchBinary(sorted, pivot, mid + 1, right)
        InsertBinary(sorted, pivot) ==
            LET at == SearchBinary(sorted, pivot, 0, Len(sorted))
            IN  SubSeq(sorted, 1, at) \o <<pivot>> \o SubSeq(sorted, at + 1, Len(sorted))
        descending == Ord(arr[2], arr[1]) < 0
        RECURSIVE RunEnd(_)
        RunEnd(idx) ==
            IF idx > n THEN n
            ELSE LET order == Ord(arr[idx], arr[idx - 1])
                 IN  IF (IF descending THEN order >= 0 ELSE order < 0)
                     THEN idx - 1
                     ELSE RunEnd(idx + 1)
        run == RunEnd(3)
        firstRun == IF descending
                    THEN [i \in 1..run |-> arr[run + 1 - i]]
                    ELSE SubSeq(arr, 1, run)
        RECURSIVE InsertAll(_, _)
        InsertAll(sorted, from) ==
            IF from > n THEN sorted
            ELSE InsertAll(IF engine = "insertion"
                           THEN InsertLinear(sorted, arr[from])
                           ELSE InsertBinary(sorted, arr[from]), from + 1)
    IN  IF n < 2 THEN arr
        ELSE IF engine = "insertion" THEN InsertAll(<<arr[1]>>, 2)
        ELSE InsertAll(firstRun, run + 1)

\* The grouping loop of compute(): the groups in the order of their first
\* node (a Map iterates in insertion order).
RECURSIVE GroupNodes(_, _)
GroupNodes(groups, nodes) ==
    IF nodes = <<>> THEN groups
    ELSE LET node == Head(nodes)
             data == LayoutItems[node]
             at == {i \in 1..Len(groups) : groups[i].key = data.key[1]}
         IN  IF DayKeyMissing(data.key)
             THEN GroupNodes(groups, Tail(nodes))
             ELSE IF at = {}
             THEN GroupNodes(Append(groups, [key |-> data.key[1],
                                             label |-> data.label,
                                             nodes |-> <<node>>,
                                             sortValue |-> data.sortValue]),
                             Tail(nodes))
             ELSE LET i == CHOOSE i \in at : TRUE
                  IN  GroupNodes([groups EXCEPT
                                     ![i].nodes = Append(@, node),
                                     ![i].sortValue = MathMax(@, data.sortValue)],
                                 Tail(nodes))

\* node.setTargets(position, size, opacity, scale): the arguments of the call.
setTargets(position, size, opacity, cardScale) ==
    [position |-> position, size |-> size, opacity |-> opacity, scale |-> cardScale]

LayoutConstructed(config, engine) ==
    /\ layoutConfig = config
    /\ sortEngine = engine
    /\ nodeTargets = [id \in NodeIds |-> Null]
    /\ axisLabels = <<>>
    /\ layoutGroups = <<>>
    /\ layoutWrites = [id \in NodeIds |-> 0]
    /\ layoutCall = Null
    /\ nodesAfter = <<>>
    /\ nLayoutCalls = 0

DefaultLayout ==
    LayoutConstructed(CHOOSE c \in LayoutConfigs : c.daySort = Undefined, "binaryInsertion")

DEFAULT_TIMEOUT == 60000

ClockStep == 30000

TimerCall(op, id) == [op |-> op, id |-> id]

\* The hook after the first render and the mount effect: isActive starts as
\* autoStart, and the effect calls startTimer() when autoStart is set.
TimerMounted(auto) ==
    /\ autoStart = auto
    /\ isActive = auto
    /\ isActiveRendered = auto
    /\ mounted = TRUE
    /\ clock = 0
    /\ timerRef = IF auto THEN <<1>> ELSE Null
    /\ timeouts = IF auto THEN {[id |-> 1, due |-> DEFAULT_TIMEOUT]} ELSE {}
    /\ nextTimeoutId = IF auto THEN 2 ELSE 1
    /\ lastStart = IF auto THEN <<0>> ELSE Null
    /\ activityStarts = 0
    /\ timeoutsFired = 0
    /\ firedIds = {}
    /\ timerCall = TimerCall("mount", 0)
    /\ nTimerCalls = 0

\* Image sources: two that new URL() accepts and one that makes it throw.
Urls == {"https://img.example/a", "https://img.example/b", "not a url"}

IsValidUrl(imageUrl) == imageUrl # "not a url"

\* HTMLImageElement objects: thumbnails handed in by the host, and the Image
\* that a load creates.
LowResImage(n) == [kind |-> "low", n |-> n]

HighResImage(loadId) == [kind |-> "high", n |-> loadId]

CacheCall(op, imageUrl, result) == [op |-> op, url |-> imageUrl, result |-> result]

CacheConstructed ==
    /\ lowResCache = [u \in Urls |-> Null]
    /\ highResCache = [u \in Urls |-> Null]
    /\ loads = {}
    /\ resolved = <<>>
    /\ nextLoadId = 1
    /\ cacheCall = CacheCall("new", "", Null)
    /\ callsSinceClear = Null
    /\ nCacheCalls = 0

HooksMounted == TimerMounted(FALSE) /\ CacheConstructed

Init ==
    /\ Constructed
    /\ CullerConstructed
    /\ LODConstructed(DEFAULT_CARD_LOD_THRESHOLD, DEFAULT_TRANSITION_SPEED)
    /\ DefaultLayout
    /\ HooksMounted
    /\ budget = MaxCalls

\* A call or event with the touch / pointer positions it carries.  hist.base
\* remembers the latest two-point touch start: its points and the target scale
\* it found.
CalledWith(op, a, b, s, pts) ==
    /\ nCalls < budget
    /\ nCalls' = nCalls + 1
    /\ hist' = [Hist(op, a, b, s) EXCEPT
                  !.pts = pts,
                  !.base = IF op = "touchStart" /\ Len(pts) = 2
                           THEN <<pts, targetScale>>
                           ELSE hist.base]
    /\ UNCHANGED <<nTicks, budget, culler, lod, layout, hooks>>

Called(op, a, b, s) == CalledWith(op, a, b, s, <<>>)

(***************************************************************************)
(* Host calls                                                              *)
(***************************************************************************)
calculateFitToContentScale(cb, vw, vh) ==
    /\ fitToContentScale' = CalcFitToContentScale(cb, vw, vh)
    /\ maxScale' = CalcMaxScale(cb, vw, vh)

setContentBounds(b) ==
    /\ Called("setContentBounds", Zero2, Zero2, R(0))
    /\ contentBounds' = <<b>>
    /\ viewportWidth' = canvas[1]
    /\ viewportHeight' = canvas[2]
    /\ calculateFitToContentScale(<<b>>, canvas[1], canvas[2])
    /\ UNCHANGED <<camera, drag, pinch, speedFactor, lockVerticalPan, canvas,
                   activeTouches>>

updateViewportSize ==
    /\ Called("updateViewportSize", Zero2, Zero2, R(0))
    /\ viewportWidth' = canvas[1]
    /\ viewportHeight' = canvas[2]
    /\ calculateFitToContentScale(contentBounds, canvas[1], canvas[2])
    /\ UNCHANGED <<camera, drag, pinch, speedFactor, lockVerticalPan, canvas,
                   contentBounds,
                   activeTouches>>

setLockVerticalPan(lock) ==
    /\ Called("setLockVerticalPan", Zero2, Zero2, R(0))
    /\ lockVerticalPan' = lock
    /\ UNCHANGED <<camera, limits, drag, pinch, speedFactor, canvas,
                   activeTouches>>

reset ==
    /\ Called("reset", ResetOffset, Zero2, fitToContentScale)
    /\ targetScale' = fitToContentScale
    /\ targetOffset' = ResetOffset
    /\ UNCHANGED <<scale, offset, zoomFocus, zoomFocusWorld, limits, drag, pinch,
                   speedFactor, lockVerticalPan, canvas,
                   activeTouches>>

centerOn(c) ==
    /\ Called("centerOn", Vec(c.worldX, c.worldY), Zero2, c.targetScale)
    /\ targetScale' = CenterScale(c)
    /\ targetOffset' = CenterOffset(c)
    /\ UNCHANGED <<scale, offset, zoomFocus, zoomFocusWorld, limits, drag, pinch,
                   speedFactor, lockVerticalPan, canvas,
                   activeTouches>>

setImmediate(c) ==
    /\ Called("setImmediate", Vec(c.offsetX, c.offsetY), Zero2, c.scale)
    /\ scale' = c.scale
    /\ targetScale' = c.scale
    /\ offset' = Vec(c.offsetX, c.offsetY)
    /\ targetOffset' = Vec(c.offsetX, c.offsetY)
    /\ UNCHANGED <<zoomFocus, zoomFocusWorld, limits, drag, pinch, speedFactor,
                   lockVerticalPan, canvas,
                   activeTouches>>

(***************************************************************************)
(* The per-frame tick                                                      *)
(***************************************************************************)
update ==
    /\ nTicks < MaxTicks
    /\ CameraFits
    /\ nTicks' = nTicks + 1
    /\ hist' = [hist EXCEPT !.ticks = @ + 1]
    /\ scale' = Lerp(scale, targetScale, speedFactor)
    /\ IF zoomFocus # Null /\ zoomFocusWorld # Null
       THEN /\ offset' = PinnedOffset(zoomFocus, zoomFocusWorld, scale')
            /\ IF PinReleased(scale', targetScale)
               THEN /\ zoomFocus' = Null
                    /\ zoomFocusWorld' = Null
                    /\ targetOffset' = offset'
               ELSE UNCHANGED <<zoomFocus, zoomFocusWorld, targetOffset>>
       ELSE /\ offset' = Vec(Lerp(offset[1], targetOffset[1], speedFactor),
                             Lerp(offset[2], targetOffset[2], speedFactor))
            /\ UNCHANGED <<zoomFocus, zoomFocusWorld, targetOffset>>
    /\ UNCHANGED <<targetScale, limits, drag, pinch, speedFactor, lockVerticalPan,
                   canvas, nCalls, budget,
                   activeTouches, culler, lod, layout, hooks>>

(***************************************************************************)
(* Input handlers                                                          *)
(***************************************************************************)
MouseX(e) == Sub(e.clientX, CanvasRect.left)

MouseY(e) == Sub(e.clientY, CanvasRect.top)

handleWheelFromCurrentScale(e) ==
    /\ CameraFits
    /\ Called("wheel", Vec(MouseX(e), MouseY(e)),
              screenToWorld(MouseX(e), MouseY(e)), e.deltaY)
    /\ zoomFocus' = Vec(MouseX(e), MouseY(e))
    /\ zoomFocusWorld' = Vec(Div(Sub(MouseX(e), offset[1]), scale),
                             Div(Sub(MouseY(e), offset[2]), scale))
    /\ targetScale' = ClampScale(Mul(scale, Add(R(1), WheelDelta(e))))
    /\ UNCHANGED <<scale, offset, targetOffset, limits, drag, pinch, speedFactor,
                   lockVerticalPan, canvas,
                   activeTouches>>

handleWheel(e) ==
    /\ CameraFits
    /\ Called("wheel", Vec(MouseX(e), MouseY(e)),
              screenToWorld(MouseX(e), MouseY(e)), e.deltaY)
    /\ zoomFocus' = Vec(MouseX(e), MouseY(e))
    /\ zoomFocusWorld' = Vec(Div(Sub(MouseX(e), offset[1]), scale),
                             Div(Sub(MouseY(e), offset[2]), scale))
    /\ targetScale' = ClampScale(Mul(targetScale, Add(R(1), WheelDelta(e))))
    /\ UNCHANGED <<scale, offset, targetOffset, limits, drag, pinch, speedFactor,
                   lockVerticalPan, canvas,
                   activeTouches>>

handleMouseDown(e) ==
    /\ CalledWith("mouseDown",
                  Vec(IF e.ctrlKey THEN R(1) ELSE R(0), IF e.metaKey THEN R(1) ELSE R(0)),
                  Zero2, R(e.button), <<Vec(e.clientX, e.clientY)>>)
    /\ IF IsPanStart(e)
       THEN /\ isDragging' = TRUE
            /\ dragStart' = Vec(e.clientX, e.clientY)
            /\ offsetStart' = targetOffset
       ELSE UNCHANGED drag
    /\ UNCHANGED <<camera, limits, pinch, speedFactor, lockVerticalPan, canvas,
                   activeTouches>>

handleMouseMoveJumps(e) ==
    /\ CalledWith("mouseMove", Zero2, Zero2, R(0), <<Vec(e.clientX, e.clientY)>>)
    /\ targetOffset' = IF isDragging THEN PanOffset(e) ELSE targetOffset
    /\ offset' = targetOffset'
    /\ UNCHANGED <<scale, targetScale, zoomFocus, zoomFocusWorld, limits,
                   drag, pinch, speedFactor, lockVerticalPan, canvas,
                   activeTouches>>

handleMouseMove(e) ==
    /\ CalledWith("mouseMove", Zero2, Zero2, R(0), <<Vec(e.clientX, e.clientY)>>)
    /\ targetOffset' = IF isDragging THEN PanOffset(e) ELSE targetOffset
    /\ UNCHANGED <<scale, offset, targetScale, zoomFocus, zoomFocusWorld, limits,
                   drag, pinch, speedFactor, lockVerticalPan, canvas,
                   activeTouches>>

handleMouseUp ==
    /\ Called("mouseUp", Zero2, Zero2, R(0))
    /\ isDragging' = FALSE
    /\ UNCHANGED <<camera, limits, dragStart, offsetStart, pinch, speedFactor,
                   lockVerticalPan, canvas,
                   activeTouches>>

TouchDistance(t) ==
    MathHypot(Sub(t[2].clientX, t[1].clientX), Sub(t[2].clientY, t[1].clientY))

TouchCenter(t) ==
    Vec(Sub(Div(Add(t[1].clientX, t[2].clientX), R(2)), CanvasRect.left),
        Sub(Div(Add(t[1].clientY, t[2].clientY), R(2)), CanvasRect.top))

handleTouchStart(t) ==
    /\ Len(t) > activeTouches
    /\ CalledWith("touchStart", Zero2, Zero2, R(Len(t)), Points(t))
    /\ IF Len(t) = 2
       THEN /\ touchStartDistance' = TouchDistance(t)
            /\ touchStartScale' = targetScale
            /\ touchStartCenter' = TouchCenter(t)
            /\ UNCHANGED drag
       ELSE IF Len(t) = 1
            THEN /\ isDragging' = TRUE
                 /\ dragStart' = Vec(t[1].clientX, t[1].clientY)
                 /\ offsetStart' = targetOffset
                 /\ UNCHANGED pinch
            ELSE UNCHANGED <<drag, pinch>>
    /\ UNCHANGED <<camera, limits, speedFactor, lockVerticalPan, canvas>>
    /\ activeTouches' = Len(t)

PinchScale(t) == ClampScale(Mul(touchStartScale, Div(TouchDistance(t), touchStartDistance)))

handleTouchMove(t) ==
    /\ Len(t) = activeTouches
    /\ CameraFits
    /\ CalledWith("touchMove", touchStartCenter,
                  screenToWorld(touchStartCenter[1], touchStartCenter[2]),
                  R(Len(t)), Points(t))
    /\ IF Len(t) = 2
       THEN /\ zoomFocus' = touchStartCenter
            /\ zoomFocusWorld' = Vec(Div(Sub(touchStartCenter[1], offset[1]), scale),
                                     Div(Sub(touchStartCenter[2], offset[2]), scale))
            /\ targetScale' = PinchScale(t)
            /\ UNCHANGED targetOffset
       ELSE IF Len(t) = 1 /\ isDragging
            THEN /\ targetOffset' = PanOffset(t[1])
                 /\ UNCHANGED <<targetScale, zoomFocus, zoomFocusWorld>>
            ELSE UNCHANGED <<targetScale, targetOffset, zoomFocus, zoomFocusWorld>>
    /\ UNCHANGED <<scale, offset, limits, drag, pinch, speedFactor, lockVerticalPan,
                   canvas>>
    /\ UNCHANGED activeTouches

handleTouchEnd ==
    /\ activeTouches > 0
    /\ Called("touchEnd", Zero2, Zero2, R(0))
    /\ isDragging' = FALSE
    /\ touchStartDistance' = R(0)
    /\ UNCHANGED <<camera, limits, dragStart, offsetStart, touchStartScale,
                   touchStartCenter, speedFactor, lockVerticalPan, canvas>>
    /\ activeTouches' = activeTouches - 1

(***************************************************************************)
(* Environment: the drawing surface is resized                             *)
(***************************************************************************)
canvasResize(size) ==
    /\ Called("canvasResize", Zero2, Zero2, R(0))
    /\ canvas' = size
    /\ UNCHANGED <<camera, limits, drag, pinch, speedFactor, lockVerticalPan,
                   activeTouches>>

Next ==
    \/ update
    \/ \E b \in ContentBoundsInputs : setContentBounds(b)
    \/ updateViewportSize
    \/ \E lock \in BOOLEAN : setLockVerticalPan(lock)
    \/ reset
    \/ \E c \in CenterOnCalls : centerOn(c)
    \/ \E c \in SetImmediateCalls : setImmediate(c)
    \/ \E e \in WheelEvents : handleWheel(e)
    \/ \E e \in MouseDownEvents : handleMouseDown(e)
    \/ \E e \in MouseMoveEvents : handleMouseMove(e)
    \/ handleMouseUp
    \/ \E t \in TouchStartEvents : handleTouchStart(t)
    \/ \E t \in TouchMoveEvents : handleTouchMove(t)
    \/ handleTouchEnd
    \/ \E size \in CanvasSizes : canvasResize(size)

Spec == Init /\ [][Next]_vars

(***************************************************************************)
(* Gestures: the pointer and touch handlers alone, over longer sequences   *)
(***************************************************************************)
InitGesture ==
    /\ Constructed
    /\ CullerConstructed
    /\ LODConstructed(DEFAULT_CARD_LOD_THRESHOLD, DEFAULT_TRANSITION_SPEED)
    /\ DefaultLayout
    /\ HooksMounted
    /\ budget = MaxGestureCalls

NextGesture ==
    \/ update
    \/ \E lock \in BOOLEAN : setLockVerticalPan(lock)
    \/ \E e \in MouseDownEvents : handleMouseDown(e)
    \/ \E e \in MouseMoveEvents : handleMouseMove(e)
    \/ handleMouseUp
    \/ \E t \in TouchStartEvents : handleTouchStart(t)
    \/ \E t \in TouchMoveEvents : handleTouchMove(t)
    \/ handleTouchEnd

SpecGesture == InitGesture /\ [][NextGesture]_vars

(***************************************************************************)
(* ViewportCulling: the host moves the camera and calls the culler         *)
(***************************************************************************)
CullerCalled(op, rect, visible, efficiency) ==
    /\ cullCall' = CullCall(op, rect, visible, efficiency)
    /\ UNCHANGED <<viewport, lod, layout, hooks, canvasWidth, canvasHeight>>

updateBoundsResetsStats ==
    /\ CullerCalled("updateBounds", Rect(0, 0, 0, 0), FALSE, R(0))
    /\ bounds' = calculateBounds
    /\ stats' = NoStats

updateBounds ==
    /\ CullerCalled("updateBounds", Rect(0, 0, 0, 0), FALSE, R(0))
    /\ bounds' = calculateBounds
    /\ UNCHANGED stats

resetStats ==
    /\ CullerCalled("resetStats", Rect(0, 0, 0, 0), FALSE, R(0))
    /\ stats' = NoStats
    /\ UNCHANGED bounds

isVisibleOfCurrentCamera(rect) ==
    /\ stats.total < MaxItems
    /\ CullerCalled("isVisible", rect, IsVisible(rect, calculateBounds), R(0))
    /\ stats' = [stats EXCEPT !.total = @ + 1]
    /\ UNCHANGED bounds

isVisible(rect) ==
    /\ stats.total < MaxItems
    /\ CullerCalled("isVisible", rect, IsVisible(rect, bounds), R(0))
    /\ stats' = [stats EXCEPT !.total = @ + 1]
    /\ UNCHANGED bounds

incrementRendered ==
    /\ stats.rendered < MaxItems
    /\ CullerCalled("incrementRendered", Rect(0, 0, 0, 0), FALSE, R(0))
    /\ stats' = [stats EXCEPT !.rendered = @ + 1]
    /\ UNCHANGED bounds

incrementCulled ==
    /\ stats.culled < MaxItems
    /\ CullerCalled("incrementCulled", Rect(0, 0, 0, 0), FALSE, R(0))
    /\ stats' = [stats EXCEPT !.culled = @ + 1]
    /\ UNCHANGED bounds

getEfficiency ==
    /\ CullerCalled("getEfficiency", Rect(0, 0, 0, 0), FALSE, Efficiency(stats))
    /\ UNCHANGED <<bounds, stats>>

NextCuller ==
    \/ \E c \in CullerCameras : setImmediate(c)
    \/ updateBounds
    \/ resetStats
    \/ \E rect \in WorldRectInputs : isVisible(rect)
    \/ incrementRendered
    \/ incrementCulled
    \/ getEfficiency

SpecCuller == Init /\ [][NextCuller]_vars

\* The camera moves (ticks, wheel zoom, setImmediate) and the surface is
\* resized between the culler's updateBounds() and isVisible() calls.
NextCullerCamera ==
    \/ update
    \/ \E e \in WheelEvents : handleWheel(e)
    \/ \E c \in CullerCameras : setImmediate(c)
    \/ canvasResize(Vec(R(800), R(400)))
    \/ updateBounds
    \/ isVisible(Rect(150, 0, 10, 10))

SpecCullerCamera == Init /\ [][NextCullerCamera]_vars

(***************************************************************************)
(* useLODTransitions: the render loop calls the hook's functions           *)
(***************************************************************************)
InitLOD ==
    /\ Constructed
    /\ CullerConstructed
    /\ \E speed \in TransitionSpeeds :
          LODConstructed(DEFAULT_CARD_LOD_THRESHOLD, speed)
    /\ DefaultLayout
    /\ HooksMounted
    /\ budget = MaxCalls

LODCalled(op, id, w) ==
    /\ nLODCalls < MaxLODCalls
    /\ nLODCalls' = nLODCalls + 1
    /\ lodCall' = LODCall(op, id, w)
    /\ UNCHANGED <<viewport, culler, layout, hooks, cardLODThreshold, transitionSpeed>>

updateLODStateOfEveryRecord(itemId, screenCardWidth) ==
    LET targetMode == LODTargetMode(screenCardWidth)
        state == lodTransitionState[itemId][1]
        returned ==
            IF lodTransitionState[itemId] = Null
            THEN InitialLODState(targetMode)
            ELSE [imageHeightPercent |->
                      Lerp(state.imageHeightPercent,
                           TargetImageHeight(targetMode), transitionSpeed),
                  textOpacity |->
                      Lerp(state.textOpacity,
                           TargetTextOpacity(targetMode), transitionSpeed),
                  targetMode |-> targetMode]
    IN  /\ LODCalled("updateLODState", itemId, screenCardWidth)
        /\ lodTransitionState' =
               [id \in ItemIds |->
                   IF id = itemId \/ lodTransitionState[id] # Null
                   THEN <<returned>> ELSE Null]
        /\ lodResult' = <<returned>>
        /\ lodSeen' = [lodSeen EXCEPT ![itemId] = "live"]

updateLODState(itemId, screenCardWidth) ==
    LET targetMode == LODTargetMode(screenCardWidth)
        state == lodTransitionState[itemId][1]
        returned ==
            IF lodTransitionState[itemId] = Null
            THEN InitialLODState(targetMode)
            ELSE [imageHeightPercent |->
                      Lerp(state.imageHeightPercent,
                           TargetImageHeight(targetMode), transitionSpeed),
                  textOpacity |->
                      Lerp(state.textOpacity,
                           TargetTextOpacity(targetMode), transitionSpeed),
                  targetMode |-> targetMode]
    IN  /\ LODCalled("updateLODState", itemId, screenCardWidth)
        /\ lodTransitionState' = [lodTransitionState EXCEPT ![itemId] = <<returned>>]
        /\ lodResult' = <<returned>>
        /\ lodSeen' = [lodSeen EXCEPT ![itemId] = "live"]

getLODStateCreates(itemId) ==
    /\ LODCalled("getLODState", itemId, R(0))
    /\ lodResult' = IF lodTransitionState[itemId] = Null
                    THEN <<InitialLODState("detail")>>
                    ELSE lodTransitionState[itemId]
    /\ lodTransitionState' = [lodTransitionState EXCEPT ![itemId] = lodResult']
    /\ UNCHANGED lodSeen

getLODState(itemId) ==
    /\ LODCalled("getLODState", itemId, R(0))
    /\ lodResult' = lodTransitionState[itemId]
    /\ UNCHANGED <<lodTransitionState, lodSeen>>

clearLODStateOfFirst ==
    /\ LODCalled("clearLODState", "a", R(0))
    /\ lodTransitionState' = [lodTransitionState EXCEPT !["a"] = Null]
    /\ lodResult' = Null
    /\ lodSeen' = [id \in ItemIds |-> IF lodSeen[id] = "never" THEN "never" ELSE "cleared"]

clearLODState ==
    /\ LODCalled("clearLODState", "a", R(0))
    /\ lodTransitionState' = [id \in ItemIds |-> Null]
    /\ lodResult' = Null
    /\ lodSeen' = [id \in ItemIds |-> IF lodSeen[id] = "never" THEN "never" ELSE "cleared"]

NextLOD ==
    \/ \E id \in ItemIds, w \in ScreenWidths : updateLODState(id, w)
    \/ \E id \in ItemIds : getLODState(id)
    \/ clearLODState

SpecLOD == InitLOD /\ [][NextLOD]_vars

\* The render loop keeps calling updateLODState for an item with the width it
\* last had, frame after frame, for as long as the item's record is away from
\* the resting values of that width's mode.
LODInTransition ==
    /\ lodCall.op = "updateLODState"
    /\ lodTransitionState[lodCall.id] #
           <<InitialLODState(LODTargetMode(lodCall.w))>>

NextLODRepeat ==
    \/ LODInTransition /\ updateLODState(lodCall.id, lodCall.w)
    \/ ~LODInTransition /\ NextLOD

\* Every step of NextLODRepeat is a call, and a call can be made exactly while
\* calls are left: the loop does not stop by itself.
LODCallMade == nLODCalls < MaxLODCalls /\ nLODCalls' = nLODCalls + 1

SpecLODRepeat == InitLOD /\ [][NextLODRepeat]_vars /\ WF_nLODCalls(LODCallMade)

(***************************************************************************)
(* updateLODState in IEEE 754 binary64, the numbers of the engine.  The    *)
(* values of a record lie in [0, 2) and are multiples of 2^-55 for the     *)
(* speeds of DoubleSpeeds: a number is a sign and a magnitude counted in   *)
(* units of 2^-55, written in five limbs of 14 bits, lowest first.         *)
(***************************************************************************)
LimbBase == 2^14

Limbs == 1..5

RECURSIVE CarryFrom(_, _, _)
CarryFrom(digits, i, carry) ==
    IF i \notin Limbs THEN <<>>
    ELSE <<(digits[i] + carry) % LimbBase>>
         \o CarryFrom(digits, i + 1, (digits[i] + carry) \div LimbBase)

Big(n) == CarryFrom([i \in Limbs |-> IF i = 1 THEN n ELSE 0], 1, 0)

BigAdd(a, b) == CarryFrom([i \in Limbs |-> a[i] + b[i]], 1, 0)

\* a - b for a >= b
BigSub(a, b) == CarryFrom([i \in Limbs |-> a[i] - b[i]], 1, 0)

BigTimes(a, n) == CarryFrom([i \in Limbs |-> a[i] * n], 1, 0)

BigHalf(a) ==
    CarryFrom([i \in Limbs |->
                  (a[i] \div 2)
                  + (IF i + 1 \in Limbs THEN (a[i + 1] % 2) * (LimbBase \div 2) ELSE 0)],
              1, 0)

BigLt(a, b) == \E i \in Limbs : a[i] < b[i] /\ \A j \in Limbs : j > i => a[j] = b[j]

BigLe(a, b) == ~BigLt(b, a)

F64(neg, mag) == [neg |-> neg /\ mag # Big(0), mag |-> mag]

\* 1.0 = 2^55 units; 0.0; the literal 0.45 = 8106479329266893 * 2^-54
\* (0x3FDCCCCCCCCCCCCD).
F64One == F64(FALSE, <<0, 0, 0, 2^13, 0>>)

F64Zero == F64(FALSE, Big(0))

F64Literal045 == F64(FALSE, <<6554, 9830, 6553, 3686, 0>>)

\* The exact sum of two numbers.
ExactSum(x, y) ==
    IF x.neg = y.neg THEN F64(x.neg, BigAdd(x.mag, y.mag))
    ELSE IF BigLt(x.mag, y.mag) THEN F64(y.neg, BigSub(y.mag, x.mag))
    ELSE F64(x.neg, BigSub(x.mag, y.mag))

\* The spacing of the doubles around a magnitude, in units: 53 significant
\* bits, so 1 below 2^53 units (0.25), 2 below 2^54, 4 below 2^55, 8 below 2^56.
UlpUnits(mag) ==
    IF mag[5] > 0 THEN 16
    ELSE IF mag[4] >= 2^13 THEN 8
    ELSE IF mag[4] >= 2^12 THEN 4
    ELSE IF mag[4] >= 2^11 THEN 2
    ELSE 1

\* Round to nearest, ties to even.
RoundToDouble(x) ==
    LET q == UlpUnits(x.mag)
        r == x.mag[1] % q
        down == BigSub(x.mag, Big(r))
        up == BigAdd(down, Big(q))
    IN  F64(x.neg,
            IF 2 * r < q THEN down
            ELSE IF 2 * r > q THEN up
            ELSE IF (x.mag[1] \div q) % 2 = 0 THEN down
            ELSE up)

F64Add(x, y) == RoundToDouble(ExactSum(x, y))

F64Sub(x, y) == RoundToDouble(ExactSum(x, F64(~y.neg, y.mag)))

\* x * transitionSpeed for the speeds 1 and 1/2: exact in binary64 (halving
\* changes the exponent only).
F64TimesSpeed(x, speed) ==
    IF speed = R(1) THEN x ELSE F64(x.neg, BigHalf(x.mag))

F64Lt(x, y) ==
    IF x.neg # y.neg THEN x.neg
    ELSE IF x.neg THEN BigLt(y.mag, x.mag)
    ELSE BigLt(x.mag, y.mag)

F64Le(x, y) == ~F64Lt(y, x)

DoubleSpeeds == {R(1), <<1, 2>>}

Lerp64Overshoots(curr, target, speed) ==
    F64Add(curr, F64Add(F64TimesSpeed(F64Sub(target, curr), speed),
                        F64TimesSpeed(F64Sub(target, curr), speed)))

\* curr += (target - curr) * transitionSpeed
Lerp64(curr, target, speed) ==
    F64Add(curr, F64TimesSpeed(F64Sub(target, curr), speed))

TargetImageHeight64(mode) == IF mode = "detail" THEN F64Literal045 ELSE F64One

TargetTextOpacity64(mode) == IF mode = "detail" THEN F64One ELSE F64Zero

InitialLODState64(mode) ==
    [imageHeightPercent |-> TargetImageHeight64(mode),
     textOpacity |-> TargetTextOpacity64(mode),
     targetMode |-> mode]

InitLODDouble ==
    /\ Constructed
    /\ CullerConstructed
    /\ \E speed \in DoubleSpeeds :
          LODConstructed(DEFAULT_CARD_LOD_THRESHOLD, speed)
    /\ DefaultLayout
    /\ HooksMounted
    /\ budget = MaxCalls

updateLODState64(itemId, screenCardWidth) ==
    LET targetMode == LODTargetMode(screenCardWidth)
        state == lodTransitionState[itemId][1]
        returned ==
            IF lodTransitionState[itemId] = Null
            THEN InitialLODState64(targetMode)
            ELSE [imageHeightPercent |->
                      Lerp64(state.imageHeightPercent,
                             TargetImageHeight64(targetMode), transitionSpeed),
                  textOpacity |->
                      Lerp64(state.textOpacity,
                             TargetTextOpacity64(targetMode), transitionSpeed),
                  targetMode |-> targetMode]
    IN  /\ LODCalled("updateLODState", itemId, screenCardWidth)
        /\ lodTransitionState' = [lodTransitionState EXCEPT ![itemId] = <<returned>>]
        /\ lodResult' = <<returned>>
        /\ lodSeen' = [lodSeen EXCEPT ![itemId] = "live"]

NextLODDouble ==
    \/ \E id \in ItemIds, w \in ScreenWidths : updateLODState64(id, w)
    \/ \E id \in ItemIds : getLODState(id)
    \/ clearLODState

SpecLODDouble == InitLODDouble /\ [][NextLODDouble]_vars

(***************************************************************************)
(* DayStackLayouter: compute() and getAxisLabels()                         *)
(***************************************************************************)
InitLayout ==
    /\ Constructed
    /\ CullerConstructed
    /\ LODConstructed(DEFAULT_CARD_LOD_THRESHOLD, DEFAULT_TRANSITION_SPEED)
    /\ \E config \in LayoutConfigs, engine \in SortEngines :
          LayoutConstructed(config, engine)
    /\ HooksMounted
    /\ budget = MaxCalls

getAxisLabels == axisLabels

\* if (eventSorter) group.nodes.sort(...): the order of a group's own array.
EventOrderAsGrouped(members) == members

EventOrder(members) ==
    IF layoutConfig.eventSort = Undefined THEN members
    ELSE ArraySort(members, layoutConfig.eventSort[1], sortEngine)

\* const x = startX + eventIndex * (cardWidth + columnGap)
ItemXOfRowStart(startX, eventIndex, cardWidth, columnGap) == startX

ItemX(startX, eventIndex, cardWidth, columnGap) ==
    Add(startX, Mul(R(eventIndex), Add(cardWidth, columnGap)))

\* compute() from line 53 on: the layout of a non-empty node list.
computeRows(nodes) ==
    LET axisWidth == Nullish(layoutConfig.axisWidth, DEFAULT_AXIS_WIDTH)
        axisPadding == Nullish(layoutConfig.axisPadding, DEFAULT_AXIS_PADDING)
        columnGap == Nullish(layoutConfig.columnGap, DEFAULT_COLUMN_GAP)
        rowGap == Nullish(layoutConfig.rowGap, DEFAULT_ROW_GAP)
        cardWidth == Nullish(layoutConfig.cardWidth, DEFAULT_CARD_WIDTH)
        cardHeight == Nullish(layoutConfig.cardHeight, DEFAULT_CARD_HEIGHT)
        groups == GroupNodes(<<>>, nodes)
        orderedGroups ==
            ArraySort(groups,
                      IF layoutConfig.daySort = Undefined THEN "sortValue"
                      ELSE layoutConfig.daySort[1],
                      sortEngine)
        rows == [i \in 1..Len(orderedGroups) |->
                   [orderedGroups[i] EXCEPT !.nodes = EventOrder(@)]]
        RECURSIVE currentY(_)
        currentY(i) == IF i = 1 THEN R(0)
                       ELSE Add(currentY(i - 1), Add(cardHeight, rowGap))
        startX == Add(axisWidth, axisPadding)
        places(node) == {ij \in (1..Len(rows)) \X (1..Len(nodes)) :
                            /\ ij[2] <= Len(rows[ij[1]].nodes)
                            /\ rows[ij[1]].nodes[ij[2]] = node}
        targets(node) ==
            LET ij == CHOOSE ij \in places(node) : TRUE
                x == ItemX(startX, ij[2] - 1, cardWidth, columnGap)
                y == currentY(ij[1])
            IN  setTargets(Vec(x, y), Vec(cardWidth, cardHeight), R(1), R(1))
    IN  /\ axisLabels' =
              [i \in 1..Len(rows) |->
                  [key |-> rows[i].key,
                   label |-> rows[i].label,
                   x |-> R(0),
                   y |-> currentY(i),
                   width |-> axisWidth,
                   height |-> cardHeight,
                   index |-> i - 1,
                   eventCount |-> Len(rows[i].nodes)]]
        /\ layoutGroups' = rows
        /\ layoutWrites' = [id \in NodeIds |-> Cardinality(places(id))]
        /\ nodeTargets' = [id \in NodeIds |->
                              IF places(id) = {} THEN nodeTargets[id]
                              ELSE <<targets(id)>>]

LayoutCalled(nodes) ==
    /\ nLayoutCalls < MaxLayoutCalls
    /\ nLayoutCalls' = nLayoutCalls + 1
    /\ layoutCall' = <<nodes>>
    /\ nodesAfter' = nodes
    /\ UNCHANGED <<layoutConfig, sortEngine, viewport, culler, lod, hooks>>

computeReturnsBeforeClearing(nodes) ==
    /\ LayoutCalled(nodes)
    /\ IF nodes = <<>>
       THEN /\ layoutGroups' = <<>>
            /\ layoutWrites' = [id \in NodeIds |-> 0]
            /\ UNCHANGED <<axisLabels, nodeTargets>>
       ELSE computeRows(nodes)

compute(nodes) ==
    /\ LayoutCalled(nodes)
    /\ IF nodes = <<>>
       THEN /\ axisLabels' = <<>>
            /\ layoutGroups' = <<>>
            /\ layoutWrites' = [id \in NodeIds |-> 0]
            /\ UNCHANGED nodeTargets
       ELSE computeRows(nodes)

NextLayout == \E nodes \in LayoutInputs : compute(nodes)

SpecLayout == InitLayout /\ [][NextLayout]_vars

(***************************************************************************)
(* useInactivityTimer                                                      *)
(***************************************************************************)
InitTimer ==
    /\ Constructed
    /\ CullerConstructed
    /\ LODConstructed(DEFAULT_CARD_LOD_THRESHOLD, DEFAULT_TRANSITION_SPEED)
    /\ DefaultLayout
    /\ \E auto \in BOOLEAN : TimerMounted(auto)
    /\ CacheConstructed
    /\ budget = MaxCalls

\* What no step of the hook touches.
TimerFrame == UNCHANGED <<autoStart, viewport, culler, lod, layout, imageCache>>

\* The host calls one of the functions returned by the last render.
TimerCalled(op) ==
    /\ mounted
    /\ nTimerCalls < MaxTimerCalls
    /\ nTimerCalls' = nTimerCalls + 1
    /\ timerCall' = TimerCall(op, 0)
    /\ TimerFrame
    /\ UNCHANGED <<clock, mounted, timeoutsFired, firedIds>>

\* window.clearTimeout(timerRef.current), if there is one.
ClearTimeout ==
    IF timerRef = Null THEN timeouts ELSE {t \in timeouts : t.id # timerRef[1]}

stopTimer ==
    /\ timeouts' = ClearTimeout
    /\ timerRef' = Null
    /\ lastStart' = Null
    /\ UNCHANGED nextTimeoutId

startTimerKeepsPending ==
    /\ timeouts' = timeouts \cup {[id |-> nextTimeoutId, due |-> clock + DEFAULT_TIMEOUT]}
    /\ timerRef' = <<nextTimeoutId>>
    /\ nextTimeoutId' = nextTimeoutId + 1
    /\ lastStart' = <<clock>>

\* stopTimer(); timerRef.current = window.setTimeout(callback, timeout)
startTimer ==
    /\ timeouts' = ClearTimeout \cup {[id |-> nextTimeoutId, due |-> clock + DEFAULT_TIMEOUT]}
    /\ timerRef' = <<nextTimeoutId>>
    /\ nextTimeoutId' = nextTimeoutId + 1
    /\ lastStart' = <<clock>>

stopTimerCalled ==
    /\ TimerCalled("stopTimer")
    /\ stopTimer
    /\ UNCHANGED <<isActive, isActiveRendered, activityStarts>>

startTimerCalled ==
    /\ TimerCalled("startTimer")
    /\ startTimer
    /\ UNCHANGED <<isActive, isActiveRendered, activityStarts>>

\* wasInactive is computed from the isActive of the render that created the
\* closure, not from the latest state.
resetTimer ==
    /\ TimerCalled("resetTimer")
    /\ IF ~isActiveRendered
       THEN /\ isActive' = TRUE
            /\ activityStarts' = activityStarts + 1
       ELSE UNCHANGED <<isActive, activityStarts>>
    /\ startTimer
    /\ UNCHANGED isActiveRendered

setActive(active) ==
    /\ TimerCalled("setActive")
    /\ isActive' = active
    /\ UNCHANGED <<isActiveRendered, timerRef, timeouts, nextTimeoutId, lastStart,
                   activityStarts>>

\* The callback given to window.setTimeout runs: setIsActive(false); onTimeout().
timeoutFires(t) ==
    /\ t.due <= clock
    /\ timeouts' = timeouts \ {t}
    /\ isActive' = IF mounted THEN FALSE ELSE isActive
    /\ timeoutsFired' = timeoutsFired + 1
    /\ firedIds' = firedIds \cup {t.id}
    /\ timerCall' = TimerCall("timeout", t.id)
    /\ TimerFrame
    /\ UNCHANGED <<isActiveRendered, timerRef, nextTimeoutId, clock, mounted,
                   activityStarts, lastStart, nTimerCalls>>

\* React renders the component again after a state change: new closures.
render ==
    /\ mounted
    /\ isActiveRendered # isActive
    /\ isActiveRendered' = isActive
    /\ timerCall' = TimerCall("render", 0)
    /\ TimerFrame
    /\ UNCHANGED <<isActive, timerRef, timeouts, nextTimeoutId, clock, mounted,
                   activityStarts, timeoutsFired, firedIds, lastStart, nTimerCalls>>

\* The cleanup of the mount effect.
unmount ==
    /\ mounted
    /\ mounted' = FALSE
    /\ stopTimer
    /\ timerCall' = TimerCall("unmount", 0)
    /\ TimerFrame
    /\ UNCHANGED <<isActive, isActiveRendered, clock, activityStarts, timeoutsFired,
                   firedIds, nTimerCalls>>

\* Time passes.
tick ==
    /\ clock < MaxClockSteps * ClockStep
    /\ clock' = clock + ClockStep
    /\ timerCall' = TimerCall("tick", 0)
    /\ TimerFrame
    /\ UNCHANGED <<isActive, isActiveRendered, timerRef, timeouts, nextTimeoutId,
                   mounted, activityStarts, timeoutsFired, firedIds, lastStart,
                   nTimerCalls>>

NextTimer ==
    \/ resetTimer
    \/ startTimerCalled
    \/ stopTimerCalled
    \/ \E active \in BOOLEAN : setActive(active)
    \/ \E t \in timeouts : timeoutFires(t)
    \/ render
    \/ unmount
    \/ tick

SpecTimer == InitTimer /\ [][NextTimer]_vars

(***************************************************************************)
(* useImageCache                                                           *)
(***************************************************************************)
\* What no step of the cache touches.
CacheFrame == UNCHANGED <<viewport, culler, lod, layout, inactivity>>

\* The host calls one of the functions returned by the hook.
CacheCalled(op, imageUrl, result) ==
    /\ nCacheCalls < MaxCacheCalls
    /\ nCacheCalls' = nCacheCalls + 1
    /\ cacheCall' = CacheCall(op, imageUrl, result)
    /\ CacheFrame

\* A call that the clearCache doc names as filling the caches again.
CountedSinceClear ==
    callsSinceClear' = IF callsSinceClear = Null THEN Null
                       ELSE <<callsSinceClear[1] + 1>>

getLowResImage(imageUrl) ==
    /\ CacheCalled("getLowResImage", imageUrl, lowResCache[imageUrl])
    /\ UNCHANGED <<lowResCache, highResCache, loads, resolved, nextLoadId,
                   callsSinceClear>>

getHighResImage(imageUrl) ==
    /\ CacheCalled("getHighResImage", imageUrl, highResCache[imageUrl])
    /\ UNCHANGED <<lowResCache, highResCache, loads, resolved, nextLoadId,
                   callsSinceClear>>

getImage(imageUrl, useHighRes) ==
    /\ CacheCalled("getImage", imageUrl,
                   IF useHighRes /\ highResCache[imageUrl] # Null
                   THEN highResCache[imageUrl]
                   ELSE lowResCache[imageUrl])
    /\ UNCHANGED <<lowResCache, highResCache, loads, resolved, nextLoadId,
                   callsSinceClear>>

setLowResImage(imageUrl, image) ==
    /\ CacheCalled("setLowResImage", imageUrl, Null)
    /\ lowResCache' = [lowResCache EXCEPT ![imageUrl] = <<image>>]
    /\ CountedSinceClear
    /\ UNCHANGED <<highResCache, loads, resolved, nextLoadId>>

\* The promise of a load settles with an image or with null.
Resolve(loadId, value) == resolved' = Append(resolved, [id |-> loadId, value |-> value])

\* loadHighResImage up to its first await: the cached image, null when
\* new URL(imageUrl) throws, or a fetch on its way.
loadHighResImage(imageUrl) ==
    /\ nextLoadId <= MaxLoads
    /\ CacheCalled("loadHighResImage", imageUrl, <<nextLoadId>>)
    /\ nextLoadId' = nextLoadId + 1
    /\ CountedSinceClear
    /\ IF highResCache[imageUrl] # Null
       THEN Resolve(nextLoadId, highResCache[imageUrl]) /\ UNCHANGED loads
       ELSE IF ~IsValidUrl(imageUrl)
       THEN Resolve(nextLoadId, Null) /\ UNCHANGED loads
       ELSE /\ loads' = loads \cup {[id |-> nextLoadId, url |-> imageUrl, stage |-> "fetch"]}
            /\ UNCHANGED resolved
    /\ UNCHANGED <<lowResCache, highResCache>>

\* await fetch(highResUrl) and await response.blob() settle: a blob, a
\* response that is not ok, or an exception.
responseArrives(load, outcome) ==
    /\ load.stage = "fetch"
    /\ cacheCall' = CacheCall("response", load.url, <<outcome>>)
    /\ IF outcome = "ok"
       THEN /\ loads' = (loads \ {load}) \cup {[load EXCEPT !.stage = "decode"]}
            /\ UNCHANGED resolved
       ELSE /\ loads' = loads \ {load}
            /\ Resolve(load.id, Null)
    /\ CacheFrame
    /\ UNCHANGED <<lowResCache, highResCache, nextLoadId, callsSinceClear, nCacheCalls>>

\* img.onload stores the image and resolves with it; img.onerror resolves
\* with null.
imageSettles(load, outcome) ==
    /\ load.stage = "decode"
    /\ cacheCall' = CacheCall(outcome, load.url, <<outcome>>)
    /\ loads' = loads \ {load}
    /\ IF outcome = "onload"
       THEN /\ highResCache' = [highResCache EXCEPT ![load.url] = <<HighResImage(load.id)>>]
            /\ Resolve(load.id, <<HighResImage(load.id)>>)
       ELSE /\ Resolve(load.id, Null)
            /\ UNCHANGED highResCache
    /\ CacheFrame
    /\ UNCHANGED <<lowResCache, nextLoadId, callsSinceClear, nCacheCalls>>

clearCache ==
    /\ CacheCalled("clearCache", "", Null)
    /\ lowResCache' = [u \in Urls |-> Null]
    /\ highResCache' = [u \in Urls |-> Null]
    /\ callsSinceClear' = <<0>>
    /\ UNCHANGED <<loads, resolved, nextLoadId>>

getCacheStats ==
    /\ CacheCalled("getCacheStats", "",
                   <<[lowResCount |-> Cardinality({u \in Urls : lowResCache[u] # Null}),
                      highResCount |-> Cardinality({u \in Urls : highResCache[u] # Null})]>>)
    /\ UNCHANGED <<lowResCache, highResCache, loads, resolved, nextLoadId,
                   callsSinceClear>>

NextCache ==
    \/ \E u \in Urls : getLowResImage(u)
    \/ \E u \in Urls : getHighResImage(u)
    \/ \E u \in Urls, useHighRes \in BOOLEAN : getImage(u, useHighRes)
    \/ \E u \in Urls : setLowResImage(u, LowResImage(1))
    \/ \E u \in Urls : loadHighResImage(u)
    \/ \E load \in loads, outcome \in {"ok", "notOk", "throws"} :
          responseArrives(load, outcome)
    \/ \E load \in loads, outcome \in {"onload", "onerror"} :
          imageSettles(load, outcome)
    \/ clearCache
    \/ getCacheStats

SpecCache == Init /\ [][NextCache]_vars

(***************************************************************************)
(* Properties of the viewport                                              *)
(***************************************************************************)
IsTick == nTicks' = nTicks + 1

IsCall(ops) == nCalls' = nCalls + 1 /\ hist'.op \in ops

InputOps ==
    {"wheel", "mouseDown", "mouseMove", "mouseUp", "touchStart", "touchMove", "touchEnd"}

ZoomInput == hist.op = "wheel" \/ (hist.op = "touchMove" /\ hist.s = R(2))

C2_TargetScaleWithinLimits ==
    ZoomInput => Le(minScale, targetScale) /\ Le(targetScale, maxScale)

\* C3: after a wheel event at screen point p followed only by update() ticks,
\* screenToWorld(p) is the world point that was under p when the wheel event
\* was handled, after every tick (stated for a finite, non-zero camera).
C3_ZoomAnchorHolds ==
    (/\ hist.op = "wheel"
     /\ hist.ticks >= 1
     /\ IsFinite(scale) /\ scale # R(0)
     /\ IsFinite(hist.b[1]) /\ IsFinite(hist.b[2]))
    => screenToWorld(hist.a[1], hist.a[2]) = hist.b

\* C4: a tick that starts with a zoom focus pinned sets offset = zoomFocus -
\* zoomFocusWorld * scale with the scale computed in that tick; it clears the
\* pin exactly when |scale - targetScale| < 0.01 and then sets targetOffset to
\* the offset; otherwise the pin and targetOffset stay as they were.
C4_FocusPinLifecycle ==
    [][(IsTick /\ zoomFocus # Null) =>
         /\ offset' = Vec(Sub(zoomFocus[1], Mul(zoomFocusWorld[1], scale')),
                          Sub(zoomFocus[2], Mul(zoomFocusWorld[2], scale')))
         /\ IF Lt(MathAbs(Sub(scale', targetScale)), <<1, 100>>)
            THEN zoomFocus' = Null /\ zoomFocusWorld' = Null /\ targetOffset' = offset'
            ELSE /\ zoomFocus' = zoomFocus
                 /\ zoomFocusWorld' = zoomFocusWorld
                 /\ targetOffset' = targetOffset]_vars

C4_Witness ==
    /\ hist.op = "wheel"
    /\ hist.ticks >= 2
    /\ zoomFocus = Null
    /\ targetOffset = offset
    /\ offset # Zero2
    /\ scale # targetScale

Dist(cur, tgt) == MathAbs(Sub(tgt, cur))

Remaining == Sub(R(1), speedFactor)

FreeTick == IsTick /\ zoomFocus = Null

\* One interpolated scalar over a tick: the remaining distance shrinks by the
\* factor 1 - speedFactor, strictly when it was not 0, and keeps its sign.
Approaches(cur, new, tgt) ==
    /\ Dist(new, tgt) = Mul(Remaining, Dist(cur, tgt))
    /\ (cur # tgt => Lt(Dist(new, tgt), Dist(cur, tgt)))
    /\ (cur = tgt => new = tgt)
    /\ Sign(Sub(tgt, new)[1]) = Sign(Sub(tgt, cur)[1])

FiniteCamera ==
    /\ IsFinite(scale) /\ IsFinite(targetScale)
    /\ IsFinite(offset[1]) /\ IsFinite(offset[2])
    /\ IsFinite(targetOffset[1]) /\ IsFinite(targetOffset[2])

C6_ResetAnimatesToFit ==
    hist.op = "reset" =>
        /\ targetScale = fitToContentScale
        /\ (zoomFocus = Null => targetOffset = hist.a)

\* C7: reset() sets targetScale = fitToContentScale and, per axis, targetOffset
\* = (viewport - content*fit)/2 - contentMin*fit when content*fit < viewport,
\* and -contentMin*fit otherwise; (0,0) when no content bounds are set.
C7_AxisTarget(size, min, view) ==
    IF Lt(Mul(size, fitToContentScale), view)
    THEN Sub(Div(Sub(view, Mul(size, fitToContentScale)), R(2)), Mul(min, fitToContentScale))
    ELSE Neg(Mul(min, fitToContentScale))

C7_ResetTargets ==
    (hist.op = "reset" /\ hist.ticks = 0) =>
        /\ targetScale = fitToContentScale
        /\ targetOffset =
              IF contentBounds = Null THEN Vec(R(0), R(0))
              ELSE Vec(C7_AxisTarget(contentBounds[1].width, contentBounds[1].minX,
                                     viewportWidth),
                       C7_AxisTarget(contentBounds[1].height, contentBounds[1].minY,
                                     viewportHeight))

C7_Witness ==
    /\ hist.op = "reset"
    /\ hist.ticks = 0
    /\ contentBounds # Null
    /\ targetScale = <<1, 2>>
    /\ targetOffset = Vec(R(50), R(100))

\* C8: after centerOn(wx, wy, s?) followed only by update() ticks, the camera
\* is heading for the view that projects (wx, wy) onto the viewport centre:
\* once no zoom focus overrides the offset, targetOffset + (wx, wy) *
\* targetScale is the viewport centre.
C8_CenterOnReachesCentre ==
    (hist.op = "centerOn" /\ zoomFocus = Null) =>
        /\ Add(targetOffset[1], Mul(hist.a[1], targetScale)) = Div(viewportWidth, R(2))
        /\ Add(targetOffset[2], Mul(hist.a[2], targetScale)) = Div(viewportHeight, R(2))

\* C9: after setImmediate(s, x, y) followed only by update() ticks, scale = s
\* and offset = (x, y): no animation follows.
C9_SetImmediateStays ==
    hist.op = "setImmediate" =>
        /\ scale = hist.s
        /\ offset = hist.a

SizingOps == {"setContentBounds", "updateViewportSize"}

C10_Fit(cv, cb) == MathMin(Div(cv[1], cb.width), Div(cv[2], cb.height))

C10_Max(cv, cb) ==
    IF cb.maxItemHeight # Undefined /\ Gt(cb.maxItemHeight, R(0))
    THEN Div(Mul(R(2), cv[2]), cb.maxItemHeight)
    ELSE Mul(R(200), C10_Fit(cv, cb))

C10_Limits(cv, cb, fit, min, max) ==
    /\ fit = C10_Fit(cv, cb)
    /\ min = Mul(<<9, 10>>, C10_Fit(cv, cb))
    /\ max = C10_Max(cv, cb)

\* C10 as stated: after setContentBounds() or updateViewportSize(), with
\* content bounds set, fitToContentScale = min(viewportWidth/width,
\* viewportHeight/height) of the latest bounds and drawing-surface size,
\* minScale is 0.9 times that, and maxScale = 2*viewportHeight/maxItemHeight
\* when maxItemHeight > 0 is given and 200 * fitToContentScale otherwise
\* (stated for content of non-zero width and height).
C10_LimitsFromLatestGeometry ==
    (/\ hist.op \in SizingOps
     /\ contentBounds # Null
     /\ contentBounds[1].width # R(0)
     /\ contentBounds[1].height # R(0))
    => C10_Limits(canvas, contentBounds[1], fitToContentScale, minScale, maxScale)

\* C10 amended: the same, when both dimensions of the drawing surface are
\* non-zero; with a zero dimension fitToContentScale = 1 and maxScale = 2.
\* The viewport size is the surface's size after either call, and
\* setContentBounds() called again with the same bounds changes nothing.
C10_LimitsFromLatestGeometryNonZero ==
    [][IsCall(SizingOps) =>
         /\ viewportWidth' = canvas'[1]
         /\ viewportHeight' = canvas'[2]
         /\ (contentBounds' # Null =>
               IF canvas'[1] = R(0) \/ canvas'[2] = R(0)
               THEN fitToContentScale' = R(1) /\ maxScale' = R(2)
               ELSE C10_Limits(canvas', contentBounds'[1], fitToContentScale',
                               Mul(fitToContentScale', MinScaleFactor), maxScale'))
         /\ ((hist.op = "setContentBounds" /\ hist'.op = "setContentBounds"
                /\ contentBounds' = contentBounds)
             => UNCHANGED <<camera, limits, drag, pinch, speedFactor,
                            lockVerticalPan, canvas>>)]_vars

C10_Witness ==
    /\ hist.op = "setContentBounds"
    /\ nCalls = 2
    /\ canvas = Vec(R(800), R(400))
    /\ contentBounds # Null
    /\ contentBounds[1].maxItemHeight = R(200)
    /\ fitToContentScale = <<4, 5>>
    /\ maxScale = R(4)

(***************************************************************************)
(* Degenerate geometry, panning, pinching and the wheel                    *)
(***************************************************************************)
DegenerateGeometry ==
    IF contentBounds = Null THEN TRUE
    ELSE \/ contentBounds[1].width = R(0)
         \/ contentBounds[1].height = R(0)
         \/ viewportWidth = R(0)
         \/ viewportHeight = R(0)

\* C11: fitToContentScale, minScale and maxScale are finite in every
\* reachable state, and while content bounds are missing, or have a zero width
\* or height, or the viewport has a zero dimension, fitToContentScale = 1 and
\* maxScale = 2.
C11_DegenerateGeometryFallsBack ==
    /\ IsFinite(fitToContentScale)
    /\ IsFinite(minScale)
    /\ IsFinite(maxScale)
    /\ (DegenerateGeometry => fitToContentScale = R(1) /\ maxScale = R(2))

\* The event of this step starts a pan: a mouse-down with the middle or right
\* button or with Ctrl / Cmd held, or a touch start with one point.
C12_PanStarts ==
    \/ /\ hist'.op = "mouseDown"
       /\ (hist'.s \in {R(1), R(2)} \/ hist'.a # Zero2)
    \/ /\ hist'.op = "touchStart"
       /\ Len(hist'.pts) = 1

\* The event of this step is a move of one pointer.
C12_PointerMoves ==
    \/ hist'.op = "mouseMove"
    \/ hist'.op = "touchMove" /\ Len(hist'.pts) = 1

\* Where a drag begun at pointer position from with target offset start has
\* carried the target offset when the pointer is at p.
C12_Dragged(start, from, p, lock) ==
    Vec(Add(start[1], Sub(p[1], from[1])),
        IF lock THEN start[2] ELSE Add(start[2], Sub(p[2], from[2])))

\* C12: the drag flag is raised only by a pan start (mouse-down with the
\* middle or right button or with Ctrl/Cmd, or a single-point touch start),
\* which records the pointer position and the target offset of that moment;
\* nothing else rewrites that record, and every mouse-up / mouse-leave /
\* touch-end / touch-cancel lowers the flag.  While the flag is up every
\* pointer move (mouse move or single-point touch move) sets targetOffset to
\* the recorded offset plus the pointer's displacement since the pan start,
\* the y component staying at its recorded value under vertical lock; while
\* it is down a move leaves targetOffset unchanged; the mouse handlers, the
\* touch start / end handlers and the single-point touch move never change
\* targetScale.
C12_PanTracking ==
    [][/\ (isDragging' # isDragging \/ dragStart' # dragStart \/ offsetStart' # offsetStart)
            => IsCall({"mouseDown", "touchStart", "mouseUp", "touchEnd"})
       /\ IsCall({"mouseDown", "touchStart"}) =>
            IF C12_PanStarts
            THEN isDragging' /\ dragStart' = hist'.pts[1] /\ offsetStart' = targetOffset
            ELSE UNCHANGED drag
       /\ IsCall({"mouseUp", "touchEnd"}) =>
            ~isDragging' /\ UNCHANGED <<dragStart, offsetStart>>
       /\ (IsCall({"mouseMove", "touchMove"}) /\ C12_PointerMoves) =>
            /\ targetOffset' = IF isDragging
                               THEN C12_Dragged(offsetStart, dragStart, hist'.pts[1],
                                                lockVerticalPan)
                               ELSE targetOffset
            /\ targetScale' = targetScale
       /\ IsCall({"mouseDown", "mouseMove", "mouseUp", "touchStart", "touchEnd"})
            => targetScale' = targetScale /\ UNCHANGED <<zoomFocus, zoomFocusWorld>>
       /\ IsCall({"mouseDown", "mouseUp", "touchStart", "touchEnd"})
            => targetOffset' = targetOffset
      ]_vars

\* A Ctrl-drag under vertical lock that began after an earlier pan had moved
\* the target offset: x follows the pointer, y stays where the drag began.
C12_Witness ==
    /\ hist.op = "mouseMove"
    /\ isDragging
    /\ lockVerticalPan
    /\ dragStart = Vec(R(120), R(80))
    /\ offsetStart = Vec(R(30), R(-10))
    /\ targetOffset = Vec(R(40), R(-10))

C13_Distance(pts) ==
    MathHypot(Sub(pts[2][1], pts[1][1]), Sub(pts[2][2], pts[1][2]))

C13_Midpoint(pts) ==
    Vec(Sub(Div(Add(pts[1][1], pts[2][1]), R(2)), CanvasRect.left),
        Sub(Div(Add(pts[1][2], pts[2][2]), R(2)), CanvasRect.top))

C13_Clamp(x, lo, hi) == MathMax(lo, MathMin(hi, x))

\* C13: a two-point touch start records the distance between the points,
\* the target scale of that moment and the midpoint (relative to the surface);
\* every two-point move after it sets targetScale to the recorded scale times
\* current distance / recorded distance, clamped to [minScale, maxScale], and
\* pins the zoom focus at the recorded midpoint with the world point that the
\* current (not the target) scale and offset put under that midpoint.
C13_PinchFollowsBaseline ==
    [][/\ (IsCall({"touchStart"}) /\ Len(hist'.pts) = 2) =>
            /\ touchStartDistance' = C13_Distance(hist'.pts)
            /\ touchStartScale' = targetScale
            /\ touchStartCenter' = C13_Midpoint(hist'.pts)
       /\ (IsCall({"touchMove"}) /\ Len(hist'.pts) = 2 /\ hist.base # <<>>) =>
            /\ targetScale' =
                 C13_Clamp(Mul(hist.base[2],
                               Div(C13_Distance(hist'.pts), C13_Distance(hist.base[1]))),
                           Mul(fitToContentScale, <<9, 10>>), maxScale)
            /\ zoomFocus' = C13_Midpoint(hist.base[1])
            /\ zoomFocusWorld' =
                 Vec(Div(Sub(C13_Midpoint(hist.base[1])[1], offset[1]), scale),
                     Div(Sub(C13_Midpoint(hist.base[1])[2], offset[2]), scale))
      ]_vars

\* C14: single-point pan and two-point pinch exclude each other.  When a
\* second touch point joins a single-point pan the pinch begins with the drag
\* flag down, and when a touch point leaves, the drag flag is down and the
\* pinch baseline is cleared: no bookkeeping of the gesture before the change
\* of the number of points stays active.
C14_PanAndPinchExclusive ==
    [][/\ (/\ hist.op = "touchStart"
           /\ Len(hist.pts) = 1
           /\ IsCall({"touchStart"})
           /\ Len(hist'.pts) = 2) => ~isDragging'
       /\ IsCall({"touchEnd"}) => (~isDragging' /\ touchStartDistance' = R(0))
      ]_vars

C15_Wheel(before, d, lo, hi) ==
    C13_Clamp(Mul(before, Sub(R(1), Mul(<<2, 1000>>, d))), lo, hi)

\* C15: a wheel event with vertical delta d sets targetScale to
\* targetScale-before * (1 - 0.002 d), clamped to [minScale, maxScale]: the
\* factor applies to the previous target scale, not to the current scale, so
\* wheel events between ticks compound.  With content 1000x1000 in a 500x500
\* viewport (fit 0.5, minScale 0.45, maxScale 100) and targetScale 0.5,
\* d = -100 gives 0.6.
C15_WheelCompounds ==
    /\ C15_Wheel(<<1, 2>>, R(-100), <<9, 20>>, R(100)) = <<3, 5>>
    /\ [][IsCall({"wheel"}) =>
            targetScale' = C15_Wheel(targetScale, hist'.s,
                                     Mul(fitToContentScale, <<9, 10>>), maxScale)]_vars

\* Two wheel events with d = -100 and no tick between them: 1 -> 1.2 -> 1.44
\* while the current scale is still 1.
C15_Witness ==
    /\ hist.op = "wheel"
    /\ hist.s = R(-100)
    /\ nCalls = 2
    /\ scale = R(1)
    /\ targetScale = <<36, 25>>

(***************************************************************************)
(* Properties of the culler                                                *)
(***************************************************************************)
\* Closed intervals [a1, a2] and [b1, b2] share a point.
C16_Meet(a1, a2, b1, b2) == Le(MathMax(a1, b1), MathMin(a2, b2))

C16_Intersects(rect, b) ==
    /\ C16_Meet(rect.x, Add(rect.x, rect.width), b.left, b.right)
    /\ C16_Meet(rect.y, Add(rect.y, rect.height), b.top, b.bottom)

C16_Hundred == [left |-> R(0), right |-> R(100), top |-> R(0), bottom |-> R(100)]

\* C16: for visible bounds B (left <= right, top <= bottom) and an item
\* rectangle R of non-negative width and height, isVisible(R) is true exactly
\* when R and B share a point on the x axis and on the y axis, touching edges
\* and corners included; for B = [0,100] x [0,100] the item {150,0,10,10} is
\* not visible and {95,0,10,10} is.
C16_VisibleIffIntersecting ==
    /\ ~IsVisible(Rect(150, 0, 10, 10), C16_Hundred)
    /\ IsVisible(Rect(95, 0, 10, 10), C16_Hundred)
    /\ (/\ cullCall.op = "isVisible"
        /\ Le(bounds.left, bounds.right)
        /\ Le(bounds.top, bounds.bottom))
       => (cullCall.visible <=> C16_Intersects(cullCall.rect, bounds))

\* An item that only touches the right edge of [0,100] x [0,100] is visible.
C16_Witness ==
    /\ cullCall.op = "isVisible"
    /\ bounds = C16_Hundred
    /\ cullCall.rect = Rect(100, 0, 10, 10)
    /\ cullCall.visible

CullerOps ==
    {"updateBounds", "resetStats", "isVisible", "incrementRendered",
     "incrementCulled", "getEfficiency"}

\* This step is a call of the culler operation op.
CullStep(op) == cullCall'.op = op /\ UNCHANGED viewport

C17_Bumped(field) == stats' = [stats EXCEPT ![field] = @ + 1]

\* C17: every isVisible call adds exactly 1 to total and leaves rendered and
\* culled alone; incrementRendered / incrementCulled add 1 to their own
\* counter only; resetStats() sets all three to 0; every other step,
\* updateBounds() included, leaves the three counters as they are, so a
\* counter only ever goes down in resetStats().
C17_CountersMoveOnlyAsCalled ==
    [][/\ CullStep("isVisible") => C17_Bumped("total")
       /\ CullStep("incrementRendered") => C17_Bumped("rendered")
       /\ CullStep("incrementCulled") => C17_Bumped("culled")
       /\ CullStep("resetStats") =>
            (stats'.total = 0 /\ stats'.rendered = 0 /\ stats'.culled = 0)
       /\ CullStep("updateBounds") => stats' = stats
       /\ (\/ stats'.total < stats.total
           \/ stats'.rendered < stats.rendered
           \/ stats'.culled < stats.culled) => CullStep("resetStats")
       /\ stats' # stats =>
            \/ CullStep("isVisible")
            \/ CullStep("incrementRendered")
            \/ CullStep("incrementCulled")
            \/ CullStep("resetStats")
      ]_vars

\* updateBounds() after the camera moved, with all three counters counting.
C17_Witness ==
    /\ cullCall.op = "updateBounds"
    /\ bounds = C16_Hundred
    /\ stats = [total |-> 2, rendered |-> 1, culled |-> 1]

\* C18: getEfficiency() returns culled / total * 100 when total > 0 and 0
\* when total = 0 (as after construction and after resetStats()), the result
\* is never the outcome of a division by zero, and the call leaves the
\* counters as they are.
C18_EfficiencyGuarded ==
    [][CullStep("getEfficiency") =>
         /\ stats' = stats
         /\ bounds' = bounds
         /\ IsFinite(cullCall'.efficiency)
         /\ IF stats.total = 0
            THEN cullCall'.efficiency = R(0)
            ELSE cullCall'.efficiency =
                     Mul(Div(R(stats.culled), R(stats.total)), R(100))]_vars

\* getEfficiency() with no isVisible call counted but two items counted as
\* culled: the quotient would be 2 / 0.
C18_Witness ==
    /\ cullCall.op = "getEfficiency"
    /\ stats = [total |-> 0, rendered |-> 0, culled |-> 2]
    /\ cullCall.efficiency = R(0)

(***************************************************************************)
(* Properties of the LOD records                                           *)
(***************************************************************************)
\* This step is a call of the hook function op.
LODStep(op) == lodCall'.op = op /\ nLODCalls' = nLODCalls + 1

\* The mode a screen width w asks for.
C19_Mode(w, threshold) == IF Le(threshold, w) THEN "detail" ELSE "image-only"

C19_Resting(mode) ==
    IF mode = "detail"
    THEN [imageHeightPercent |-> Div(R(45), R(100)), textOpacity |-> R(1), targetMode |-> mode]
    ELSE [imageHeightPercent |-> R(1), textOpacity |-> R(0), targetMode |-> mode]

\* C19: the first updateLODState(id, w) for an id without a record (never
\* observed, or not since the last clearLODState) creates the record at the
\* resting values of the mode w asks for -- detail: imageHeightPercent 0.45,
\* textOpacity 1; image-only: 1 and 0 -- with no interpolation step, and
\* touches no other id's record.
C19_FirstObservationAtRest ==
    [][(LODStep("updateLODState") /\ lodTransitionState[lodCall'.id] = Null) =>
         /\ lodTransitionState'[lodCall'.id] =
                <<C19_Resting(C19_Mode(lodCall'.w, cardLODThreshold))>>
         /\ \A id \in ItemIds \ {lodCall'.id} :
                lodTransitionState'[id] = lodTransitionState[id]]_vars

\* "a" observed below the threshold for the first time after a clear, with
\* three calls made before it.
C19_Witness ==
    /\ lodCall = LODCall("updateLODState", "a", R(79))
    /\ nLODCalls = 4
    /\ lodTransitionState["b"] = Null
    /\ lodTransitionState["a"] = <<C19_Resting("image-only")>>

\* C20: after every updateLODState(id, w) the record of id exists and its
\* targetMode is 'detail' when w >= threshold and 'image-only' otherwise,
\* whatever mode was stored, however far the visual fields have moved and
\* however recently the mode changed.
C20_ModeIsLevelTriggered ==
    [][LODStep("updateLODState") =>
         IF lodTransitionState'[lodCall'.id] = Null THEN FALSE
         ELSE lodTransitionState'[lodCall'.id][1].targetMode =
                  C19_Mode(lodCall'.w, cardLODThreshold)]_vars

\* A record created image-only, flipped to detail by a width exactly at the
\* threshold and flipped back by the next call, one step into each transition.
C20_Witness ==
    /\ lodCall = LODCall("updateLODState", "a", R(79))
    /\ nLODCalls = 3
    /\ lodTransitionState["a"] # Null
    /\ lodTransitionState["a"][1].targetMode = "image-only"
    /\ lodTransitionState["a"][1].textOpacity =
           Mul(transitionSpeed, Sub(R(1), transitionSpeed))

\* The record of the item last passed to updateLODState is away from the
\* resting values of the mode its width asks for.
C21_AwayFromRest ==
    /\ lodCall.op = "updateLODState"
    /\ lodTransitionState[lodCall.id] #
           <<C19_Resting(C19_Mode(lodCall.w, cardLODThreshold))>>

\* The step repeats the previous updateLODState call on an existing record.
C21_Repeats ==
    /\ LODStep("updateLODState")
    /\ lodCall.op = "updateLODState"
    /\ lodCall'.id = lodCall.id
    /\ lodCall'.w = lodCall.w
    /\ lodTransitionState[lodCall.id] # Null

C21_Gap(rec, mode) ==
    <<Sub(C19_Resting(mode).imageHeightPercent, rec.imageHeightPercent),
      Sub(C19_Resting(mode).textOpacity, rec.textOpacity)>>

C21_StepNeverArrives ==
    [][(C21_Repeats /\ C21_AwayFromRest) =>
         LET mode == C19_Mode(lodCall.w, cardLODThreshold)
             rec == lodTransitionState[lodCall.id][1]
             new == lodTransitionState'[lodCall.id][1]
         IN  /\ C21_Gap(new, mode)[1] =
                    Mul(Sub(R(1), transitionSpeed), C21_Gap(rec, mode)[1])
             /\ C21_Gap(new, mode)[2] =
                    Mul(Sub(R(1), transitionSpeed), C21_Gap(rec, mode)[2])
             /\ new # C19_Resting(mode)]_vars

\* C22: getLODState(id) always returns: the current record of id when id
\* has been passed to updateLODState since the last clearLODState, and the
\* no-state result (null) otherwise; it creates no record and changes none.
C22_GetIsAPureRead ==
    [][LODStep("getLODState") =>
         /\ lodTransitionState' = lodTransitionState
         /\ IF lodSeen[lodCall'.id] = "live"
            THEN /\ lodResult' # Null
                 /\ lodResult' = lodTransitionState[lodCall'.id]
            ELSE lodResult' = Null]_vars

\* getLODState("b") answers "no state" for an item never observed while the
\* record of "a" is part-way through a transition, and creates nothing.
C22_Witness ==
    /\ lodCall.op = "getLODState"
    /\ lodCall.id = "b"
    /\ lodResult = Null
    /\ lodSeen = [a |-> "live", b |-> "never"]
    /\ lodTransitionState["b"] = Null
    /\ lodTransitionState["a"] # Null
    /\ lodTransitionState["a"][1].textOpacity \notin {R(0), R(1)}

\* C23: only clearLODState() destroys records.  A record, once created by
\* updateLODState, stays through every updateLODState / getLODState call for
\* any id; clearLODState() removes every record, and from then on
\* getLODState(id) returns no state until id is passed to updateLODState again.
C23_OnlyClearDestroys ==
    /\ [](\A id \in ItemIds : lodTransitionState[id] # Null <=> lodSeen[id] = "live")
    /\ [][/\ \A id \in ItemIds :
               (lodTransitionState[id] # Null /\ lodTransitionState'[id] = Null)
                  => LODStep("clearLODState")
          /\ LODStep("clearLODState") =>
               \A id \in ItemIds : lodTransitionState'[id] = Null
          /\ (LODStep("getLODState") /\ lodSeen[lodCall'.id] = "cleared") =>
               lodResult' = Null
         ]_vars

\* After a clear, "b" has been observed again and "a" has not:
\* getLODState("a") returns no state.
C23_Witness ==
    /\ lodCall.op = "getLODState"
    /\ lodCall.id = "a"
    /\ lodResult = Null
    /\ lodSeen = [a |-> "cleared", b |-> "live"]
    /\ lodTransitionState["b"] # Null

(***************************************************************************)
(* Properties of the day-stack layouter                                    *)
(***************************************************************************)
\* A step that is one compute() call; its argument is layoutCall'[1].
LayoutStep == nLayoutCalls' = nLayoutCalls + 1

\* The configured geometry, with the documented defaults.
Geometry ==
    [axisWidth   |-> IF layoutConfig.axisWidth = Undefined THEN R(220) ELSE layoutConfig.axisWidth,
     axisPadding |-> IF layoutConfig.axisPadding = Undefined THEN R(24) ELSE layoutConfig.axisPadding,
     columnGap   |-> IF layoutConfig.columnGap = Undefined THEN R(24) ELSE layoutConfig.columnGap,
     rowGap      |-> IF layoutConfig.rowGap = Undefined THEN R(40) ELSE layoutConfig.rowGap,
     cardWidth   |-> IF layoutConfig.cardWidth = Undefined THEN R(280) ELSE layoutConfig.cardWidth,
     cardHeight  |-> IF layoutConfig.cardHeight = Undefined THEN R(180) ELSE layoutConfig.cardHeight]

Elements(seq) == {seq[i] : i \in 1..Len(seq)}

C24_HasKey(node) == LayoutItems[node].key \notin {Null, <<"">>}

\* Math.max of a set of sort values.
C24_Max(values) ==
    IF NaN \in values THEN NaN
    ELSE CHOOSE r \in values : \A v \in values : Le(v, r)

C24_Partition(nodes, groups, writes, before, after) ==
    /\ \A k \in 1..Len(nodes) :
          LET node == nodes[k]
              holding == {i \in 1..Len(groups) : node \in Elements(groups[i].nodes)}
          IN  IF C24_HasKey(node)
              THEN /\ Cardinality(holding) = 1
                   /\ \A i \in holding :
                         /\ groups[i].key = LayoutItems[node].key[1]
                         /\ Cardinality({j \in 1..Len(groups[i].nodes) :
                                            groups[i].nodes[j] = node}) = 1
                   /\ writes[node] = 1
                   /\ after[node] # Null
                   /\ after[node][1].size = Vec(Geometry.cardWidth, Geometry.cardHeight)
                   /\ after[node][1].opacity = R(1)
                   /\ after[node][1].scale = R(1)
              ELSE /\ holding = {}
                   /\ writes[node] = 0
                   /\ after[node] = before[node]
    /\ \A i \in 1..Len(groups) :
          LET members == {k \in 1..Len(nodes) :
                             LayoutItems[nodes[k]].key = <<groups[i].key>>}
          IN  /\ groups[i].key # ""
              /\ Len(groups[i].nodes) = Cardinality(members)
              /\ Elements(groups[i].nodes) = {nodes[k] : k \in members}
              /\ groups[i].sortValue =
                    C24_Max({LayoutItems[nodes[k]].sortValue : k \in members})
              /\ \A j \in 1..Len(groups) : groups[j].key = groups[i].key => j = i

\* C24: compute() partitions the input by key.  Every node with a non-empty
\* key is in exactly one bucket, the one of its key, and gets exactly one
\* setTargets call, with size (cardWidth, cardHeight), opacity 1 and scale 1;
\* a node whose key is null, undefined or empty is in no bucket and its
\* targets are not written; each bucket holds as many nodes as the input has
\* with that key, and its sort value is the maximum over them.
C24_PartitionByKey ==
    [][LayoutStep =>
         C24_Partition(layoutCall'[1], layoutGroups', layoutWrites',
                       nodeTargets, nodeTargets')]_vars

\* compute([Mon 1, null key, empty key, Mon 2]) made one bucket of two nodes
\* with sort value 2 and wrote nothing to the two nodes without a key.
C24_Witness ==
    /\ layoutCall = << <<1, 4, 5, 2>> >>
    /\ Len(layoutGroups) = 1
    /\ layoutGroups[1].key = "Mon"
    /\ Len(layoutGroups[1].nodes) = 2
    /\ layoutGroups[1].sortValue = R(2)
    /\ layoutWrites = [id \in NodeIds |-> IF id \in {1, 2} THEN 1 ELSE 0]
    /\ nodeTargets[4] = Null
    /\ nodeTargets[5] = Null
    /\ nodeTargets[1] # Null

\* Weekday order, as the configured daySort compares bucket keys.
C25_Weekday(key) ==
    CASE key = "Mon" -> 1 [] key = "Tue" -> 2 [] key = "Wed" -> 3 [] key = "Thu" -> 4

C25_Ordered(groups) ==
    \A i, j \in 1..Len(groups) :
        IF layoutConfig.daySort = Undefined
        THEN Gt(groups[i].sortValue, groups[j].sortValue) => i < j
        ELSE C25_Weekday(groups[i].key) < C25_Weekday(groups[j].key) => i < j

\* C25: the rows of a compute() call are ordered by the configured bucket
\* comparator, and without one by descending sort value: of any two buckets
\* the one with the strictly larger maximum sort value has the smaller row
\* index.
C25_BucketOrder ==
    [][LayoutStep => C25_Ordered(layoutGroups')]_vars

\* The same order holds whenever no bucket's sort value is NaN.
C25_BucketOrderOfComparable ==
    [][(LayoutStep /\ \A i \in 1..Len(layoutGroups') : ~IsNaN(layoutGroups'[i].sortValue))
          => C25_Ordered(layoutGroups')]_vars

\* The x of the target a node got, and where the node stands in the input.
C26_X(targets, node) == targets[node][1].position[1]

C26_InputIndex(nodes, node) == CHOOSE k \in 1..Len(nodes) : nodes[k] = node

C26_Before(nodes, a, b) ==
    IF layoutConfig.eventSort = Undefined
    THEN C26_InputIndex(nodes, a) < C26_InputIndex(nodes, b)
    ELSE LayoutItems[a].rank < LayoutItems[b].rank

\* C26: within a bucket the nodes stand left to right in the order of the
\* configured item comparator, and without one in the order of the input
\* list; compute() leaves the caller's list in the order it was passed.
C26_OrderWithinBucket ==
    [][LayoutStep =>
         /\ \A i \in 1..Len(layoutGroups') :
               \A a, b \in Elements(layoutGroups'[i].nodes) :
                   C26_Before(layoutCall'[1], a, b) =>
                       Lt(C26_X(nodeTargets', a), C26_X(nodeTargets', b))
         /\ nodesAfter' = layoutCall'[1]]_vars

\* With the rank comparator configured, compute([Mon rank 2, Mon rank 1])
\* put the second node of the input first in the row.
C26_Witness ==
    /\ layoutConfig.eventSort = <<"rank">>
    /\ layoutCall = << <<1, 2, 3>> >>
    /\ nodesAfter = <<1, 2, 3>>
    /\ \E i \in 1..Len(layoutGroups) : layoutGroups[i].nodes = <<2, 1>>
    /\ Lt(C26_X(nodeTargets, 2), C26_X(nodeTargets, 1))

\* Without a comparator the same input keeps the order of the list.
C26_WitnessEncounterOrder ==
    /\ layoutConfig.eventSort = Undefined
    /\ layoutCall = << <<3, 1, 2>> >>
    /\ \E i \in 1..Len(layoutGroups) : layoutGroups[i].nodes = <<1, 2>>
    /\ Lt(C26_X(nodeTargets, 1), C26_X(nodeTargets, 2))

C27_RowY(i) == Mul(R(i), Add(Geometry.cardHeight, Geometry.rowGap))

C27_ItemX(j) ==
    Add(Add(Geometry.axisWidth, Geometry.axisPadding),
        Mul(R(j), Add(Geometry.cardWidth, Geometry.columnGap)))

\* The label of a bucket is the label of its first node in the input.
C27_Label(nodes, key) ==
    LayoutItems[nodes[CHOOSE k \in 1..Len(nodes) :
                         /\ LayoutItems[nodes[k]].key = <<key>>
                         /\ \A m \in 1..(k - 1) : LayoutItems[nodes[m]].key # <<key>>]].label

C27_Rows(nodes, groups, labels, targets) ==
    /\ Len(labels) = Len(groups)
    /\ \A i \in 1..Len(groups) :
          /\ labels[i] = [key |-> groups[i].key,
                          label |-> C27_Label(nodes, groups[i].key),
                          x |-> R(0),
                          y |-> C27_RowY(i - 1),
                          width |-> Geometry.axisWidth,
                          height |-> Geometry.cardHeight,
                          index |-> i - 1,
                          eventCount |-> Len(groups[i].nodes)]
          /\ \A j \in 1..Len(groups[i].nodes) :
                targets[groups[i].nodes[j]][1].position =
                    Vec(C27_ItemX(j - 1), C27_RowY(i - 1))

\* C27: row i (from 0) is at y = i * (cardHeight + rowGap); the j-th node
\* (from 0) of a row is at (axisWidth + axisPadding + j * (cardWidth +
\* columnGap), y of the row); there is one axis label per bucket, with x = 0,
\* the row's y, width axisWidth, height cardHeight, index i and the bucket's
\* key, label and node count.  With the default geometry and nodes keyed
\* Mon, Mon, Tue with sort values 1, 2, 3: Tue's row is at y = 0, Mon's at
\* y = 220, and Mon's nodes start at x = 244.
C27_RowGeometry ==
    [][LayoutStep =>
         /\ C27_Rows(layoutCall'[1], layoutGroups', axisLabels', nodeTargets')
         /\ (layoutConfig = [axisWidth |-> Undefined, axisPadding |-> Undefined,
                             columnGap |-> Undefined, rowGap |-> Undefined,
                             cardWidth |-> Undefined, cardHeight |-> Undefined,
                             daySort |-> Undefined, eventSort |-> Undefined]
             /\ layoutCall'[1] = <<1, 2, 3>>)
            => /\ Len(axisLabels') = 2
               /\ axisLabels'[1].key = "Tue"
               /\ axisLabels'[1].y = R(0)
               /\ axisLabels'[2].key = "Mon"
               /\ axisLabels'[2].y = R(220)
               /\ nodeTargets'[3][1].position = Vec(R(244), R(0))
               /\ nodeTargets'[1][1].position = Vec(R(244), R(220))
               /\ nodeTargets'[2][1].position[2] = R(220)
               /\ Gt(nodeTargets'[2][1].position[1], R(244))]_vars

\* Every option configured, axisPadding 0: compute([Mon, Mon, Tue]) put
\* Mon's row first (weekday order), its nodes at x = 100 and 160, and Tue's
\* row at y = 35.
C27_Witness ==
    /\ layoutConfig.axisPadding = R(0)
    /\ layoutCall = << <<1, 2, 3>> >>
    /\ Len(getAxisLabels) = 2
    /\ getAxisLabels[2] = [key |-> "Tue", label |-> "Tuesday", x |-> R(0), y |-> R(35),
                           width |-> R(100), height |-> R(30), index |-> 1,
                           eventCount |-> 1]
    /\ nodeTargets[2][1].position = Vec(R(100), R(0))
    /\ nodeTargets[1][1].position = Vec(R(160), R(0))
    /\ nodeTargets[3][1].position = Vec(R(100), R(35))

\* The documented scenario under the default geometry.
C27_WitnessScenario ==
    /\ layoutConfig.axisWidth = Undefined
    /\ layoutCall = << <<1, 2, 3>> >>
    /\ getAxisLabels[1].key = "Tue"
    /\ getAxisLabels[2].y = R(220)
    /\ nodeTargets[1][1].position = Vec(R(244), R(220))
    /\ nodeTargets[2][1].position = Vec(R(548), R(220))

\* The non-empty keys of a node list.
C28_Keys(nodes) ==
    {LayoutItems[nodes[k]].key[1] : k \in {m \in 1..Len(nodes) : C24_HasKey(nodes[m])}}

\* C28: compute() keeps nothing between calls but the axis labels, which it
\* replaces.  A call with the arguments of the call before it leaves every
\* target and the axis labels as that call left them; after any call there
\* is exactly one label for each key of that call's input and none for any
\* other key; an empty input leaves an empty label list.
C28_ComputeIsRepeatable ==
    [][LayoutStep =>
         /\ (layoutCall # Null /\ layoutCall' = layoutCall)
               => (nodeTargets' = nodeTargets /\ axisLabels' = axisLabels)
         /\ {axisLabels'[i].key : i \in 1..Len(axisLabels')} = C28_Keys(layoutCall'[1])
         /\ Len(axisLabels') = Cardinality(C28_Keys(layoutCall'[1]))
         /\ layoutCall'[1] = <<>> => axisLabels' = <<>>]_vars

\* compute([Mon, Mon, Tue]) twice in a row: the second call left the two
\* labels and the three targets as they were.
C28_Witness ==
    /\ nLayoutCalls = 2
    /\ layoutCall = << <<1, 2, 3>> >>
    /\ Len(getAxisLabels) = 2
    /\ \A id \in {1, 2, 3} : nodeTargets[id] # Null
    /\ \A id \in NodeIds \ {1, 2, 3} : nodeTargets[id] = Null

\* compute([]) after a call that had produced labels: the list is empty and
\* the targets of the earlier call are still on the nodes.
C28_WitnessEmptied ==
    /\ nLayoutCalls = 2
    /\ layoutCall = << <<>> >>
    /\ getAxisLabels = <<>>
    /\ nodeTargets[7] # Null

\* C29: whenever the limits are derived from content bounds, minScale <=
\* maxScale: the interval that wheel and pinch zoom clamp into is not empty,
\* whatever the content size, the viewport size and maxItemHeight are.
C29_ClampIntervalNotEmpty ==
    contentBounds # Null => Le(minScale, maxScale)

\* minScale <= maxScale does hold while no maxItemHeight is in effect and the
\* geometry is not degenerate: then maxScale = 200 * fitToContentScale.
C29_IntervalOfFitScale ==
    (IF contentBounds = Null THEN FALSE
     ELSE ~HasMaxItemHeight(contentBounds[1]) /\ ~DegenerateGeometry)
        => Lt(minScale, maxScale)

\* C30: a two-point touch move never takes its scale factor from a pinch
\* baseline distance of 0 (none recorded, or the one of a gesture that a
\* touch end has closed), so it never stores a targetScale that comes from a
\* division by zero: maxScale through Infinity, or NaN.
C30_PinchBaselineIsLive ==
    [][(IsCall({"touchMove"}) /\ Len(hist'.pts) = 2) =>
          /\ touchStartDistance # R(0)
          /\ IsFinite(Div(C13_Distance(hist'.pts), touchStartDistance))
          /\ ~IsNaN(targetScale')]_vars

\* A two-point move right after a two-point start does use the distance that
\* start recorded.
C30_BaselineAfterTwoPointStart ==
    [][(/\ hist.op = "touchStart"
        /\ Len(hist.pts) = 2
        /\ IsCall({"touchMove"})
        /\ Len(hist'.pts) = 2) =>
          touchStartDistance = C13_Distance(hist.pts)]_vars

C31_InRange(rec) ==
    /\ Le(Div(R(45), R(100)), rec.imageHeightPercent)
    /\ Le(rec.imageHeightPercent, R(1))
    /\ Le(R(0), rec.textOpacity)
    /\ Le(rec.textOpacity, R(1))

\* With numbers as exact fractions (no rounding) and transitionSpeed in
\* [0, 1], every record has 0.45 <= imageHeightPercent <= 1 and
\* 0 <= textOpacity <= 1 after any updateLODState calls.
C31_RecordsInRangeOfExactNumbers ==
    (Le(R(0), transitionSpeed) /\ Le(transitionSpeed, R(1))) =>
        \A id \in ItemIds :
            IF lodTransitionState[id] = Null THEN TRUE
            ELSE C31_InRange(lodTransitionState[id][1])

\* Item "a" was created in one mode and then driven back and forth across the
\* threshold: after four calls its fields are strictly inside both ranges.
C31_WitnessOfExactNumbers ==
    /\ nLODCalls = 4
    /\ lodCall = LODCall("updateLODState", "a", R(80))
    /\ lodTransitionState["a"] # Null
    /\ Lt(Div(R(45), R(100)), lodTransitionState["a"][1].imageHeightPercent)
    /\ Lt(lodTransitionState["a"][1].imageHeightPercent, R(1))
    /\ Lt(R(0), lodTransitionState["a"][1].textOpacity)
    /\ Lt(lodTransitionState["a"][1].textOpacity, R(1))
    /\ lodTransitionState["a"][1].textOpacity \notin
           {transitionSpeed, Sub(R(1), transitionSpeed)}

\* C32: updateLODState(id, w) creates or changes the record of id only; the
\* record of every other id (mode and both visual fields) stays as it was.
C32_RecordsAreIndependent ==
    [][LODStep("updateLODState") =>
         \A other \in ItemIds \ {lodCall'.id} :
             lodTransitionState'[other] = lodTransitionState[other]]_vars

\* "a" is part-way through a transition toward image-only when
\* updateLODState("b", 200) has just moved "b" from image-only toward detail:
\* the two records differ in mode and in both visual fields.
C32_Witness ==
    /\ lodCall = LODCall("updateLODState", "b", R(200))
    /\ lodTransitionState["a"] # Null
    /\ lodTransitionState["b"] # Null
    /\ lodTransitionState["a"][1].targetMode = "image-only"
    /\ lodTransitionState["b"][1].targetMode = "detail"
    /\ lodTransitionState["a"][1].textOpacity = Sub(R(1), transitionSpeed)
    /\ lodTransitionState["b"][1].textOpacity = transitionSpeed

\* The rectangle that the current camera shows of a surface of the size the
\* culler was constructed with.
C33_Shown(s, o, w, h) ==
    [left |-> Div(Sub(R(0), o[1]), s), right |-> Div(Sub(w, o[1]), s),
     top |-> Div(Sub(R(0), o[2]), s), bottom |-> Div(Sub(h, o[2]), s)]

\* C33: the culler's rectangle changes in updateBounds() only.  Ticks,
\* setImmediate, input events and a resize of the surface leave getBounds()
\* as it is, and isVisible answers from that rectangle, not from the camera;
\* updateBounds() sets the rectangle to screenToWorld(0, 0) and
\* screenToWorld(canvasWidth, canvasHeight) of the current scale and offset,
\* with the canvas size given at construction.
C33_BoundsChangeOnlyInUpdateBounds ==
    [][/\ bounds' # bounds => CullStep("updateBounds")
       /\ <<canvasWidth', canvasHeight'>> = <<canvasWidth, canvasHeight>>
       /\ CullStep("updateBounds") =>
            bounds' = C33_Shown(scale, offset, InitialCanvas[1], InitialCanvas[2])
       /\ (/\ CullStep("isVisible")
           /\ Le(bounds.left, bounds.right)
           /\ Le(bounds.top, bounds.bottom))
          => /\ bounds' = bounds
             /\ cullCall'.visible <=> C16_Intersects(cullCall'.rect, bounds)]_vars

\* The rectangle is still that of the camera at construction ([0,500] x
\* [0,500]) after setImmediate moved the camera to [0,100] x [0,100]:
\* isVisible answers true for an item at x = 150, which the camera no longer
\* shows.
C33_Witness ==
    /\ cullCall.op = "isVisible"
    /\ cullCall.rect = Rect(150, 0, 10, 10)
    /\ cullCall.visible
    /\ scale = R(5)
    /\ bounds = [left |-> R(0), right |-> R(500), top |-> R(0), bottom |-> R(500)]
    /\ bounds # C33_Shown(scale, offset, canvasWidth, canvasHeight)
    /\ ~C16_Intersects(cullCall.rect, C33_Shown(scale, offset, canvasWidth, canvasHeight))

\* C34: after any sequence of isVisible, incrementRendered, incrementCulled and
\* resetStats calls, getEfficiency() returns a percentage between 0 and 100
\* inclusive.
C34_EfficiencyIsAPercentage ==
    cullCall.op = "getEfficiency" =>
        /\ Le(R(0), cullCall.efficiency)
        /\ Le(cullCall.efficiency, R(100))

\* The counters are independent of each other: stats.culled exceeds
\* stats.total as soon as incrementCulled() is called more often than
\* isVisible(), and the returned value is then above 100.
C34_EfficiencyAboveHundred ==
    ~(/\ cullCall.op = "getEfficiency"
      /\ stats = [total |-> 1, rendered |-> 0, culled |-> 2]
      /\ cullCall.efficiency = R(200))

\* The rectangle of a node's targets: position is its top-left corner, as it
\* is for the axis labels (x, y, width, height).
C35_Rect(target) ==
    [left |-> target.position[1], top |-> target.position[2],
     right |-> Add(target.position[1], target.size[1]),
     bottom |-> Add(target.position[2], target.size[2])]

\* Two rectangles share more than an edge.
C35_Overlap(a, b) ==
    /\ Lt(a.left, b.right) /\ Lt(b.left, a.right)
    /\ Lt(a.top, b.bottom) /\ Lt(b.top, a.bottom)

C35_Places(groups) ==
    {ij \in (1..Len(groups)) \X (1..MaxItems + 2) : ij[2] <= Len(groups[ij[1]].nodes)}

C35_Apart(groups, targets) ==
    LET rect(ij) == C35_Rect(targets[groups[ij[1]].nodes[ij[2]]][1])
    IN  \A p \in C35_Places(groups) :
           /\ Le(Geometry.axisWidth, rect(p).left)
           /\ ~C35_Overlap(rect(p), [left |-> R(0), right |-> Geometry.axisWidth,
                                     top |-> rect(p).top, bottom |-> rect(p).bottom])
           /\ \A q \in C35_Places(groups) \ {p} :
                 /\ ~C35_Overlap(rect(p), rect(q))
                 /\ (q[1] = p[1] /\ q[2] = p[2] + 1) =>
                       /\ rect(q).left = Add(rect(p).right, Geometry.columnGap)
                       /\ rect(q).top = rect(p).top
                 /\ q[1] = p[1] + 1 =>
                       rect(q).top = Add(rect(p).bottom, Geometry.rowGap)

\* C35: with non-negative gaps and a positive card size, the rectangles that
\* one compute() call gives to two distinct laid-out items never overlap:
\* neighbours in a row are columnGap apart, consecutive rows are rowGap apart,
\* and every item rectangle starts at or to the right of axisWidth, so none
\* overlaps the axis-label column.
C35_ItemsDoNotOverlap ==
    [][(/\ LayoutStep
        /\ Le(R(0), Geometry.axisPadding)
        /\ Le(R(0), Geometry.columnGap)
        /\ Le(R(0), Geometry.rowGap)
        /\ Lt(R(0), Geometry.cardWidth)
        /\ Lt(R(0), Geometry.cardHeight))
       => C35_Apart(layoutGroups', nodeTargets')]_vars

\* compute([1, 2, 3]) with the default geometry: item 3 alone in the first
\* row, items 1 and 2 side by side in the second, 24 apart, 40 below.
C35_Witness ==
    /\ layoutCall = <<<<1, 2, 3>>>>
    /\ Geometry.columnGap = R(24)
    /\ Len(layoutGroups) = 2
    /\ layoutGroups[1].nodes = <<3>>
    /\ layoutGroups[2].nodes = <<1, 2>>
    /\ C35_Rect(nodeTargets[3][1]) =
          [left |-> R(244), top |-> R(0), right |-> R(524), bottom |-> R(180)]
    /\ C35_Rect(nodeTargets[1][1]) =
          [left |-> R(244), top |-> R(220), right |-> R(524), bottom |-> R(400)]
    /\ C35_Rect(nodeTargets[2][1]) =
          [left |-> R(548), top |-> R(220), right |-> R(828), bottom |-> R(400)]

\* A step that is a call of resetTimer by the host.
C36_ResetStep == timerCall'.op = "resetTimer" /\ nTimerCalls' = nTimerCalls + 1

\* C36: onActivityStart is invoked exactly once per transition from inactive
\* to active: a resetTimer call invokes it if and only if the user was
\* inactive (isActive false) when it was called, also when several resetTimer
\* calls happen before the component renders again.
C36_ActivityStartOncePerTransition ==
    [][C36_ResetStep =>
         activityStarts' = activityStarts + (IF isActive THEN 0 ELSE 1)]_vars

\* Two resetTimer calls before the next render both find isActive false in
\* their closure: onActivityStart has run twice and no timeout has fired.
C36_NotTwiceWithoutTimeout ==
    ~(/\ ~autoStart
      /\ nTimerCalls = 2
      /\ timerCall.op = "resetTimer"
      /\ activityStarts = 2
      /\ timeoutsFired = 0)

\* A resetTimer call after the timeout but before the next render finds
\* isActive true in its closure: the user was inactive, onActivityStart is not
\* invoked and isActive stays false while the timer runs again.
C36_NotMissedAfterTimeout ==
    ~(/\ autoStart
      /\ nTimerCalls = 1
      /\ timerCall.op = "resetTimer"
      /\ timeoutsFired = 1
      /\ activityStarts = 0
      /\ ~isActive
      /\ timeouts # {})

\* A step in which the callback of a timeout runs.
C37_FireStep == timeoutsFired' # timeoutsFired

C38_Empty(cache) == \A u \in Urls : cache[u] = Null

\* C38: after clearCache() both caches are empty and stay empty, getCacheStats
\* reports 0/0 and every get returns null, until a setLowResImage or
\* loadHighResImage call that is made after the clear.
C38_EmptyUntilCalledAgain ==
    callsSinceClear = <<0>> =>
        /\ C38_Empty(lowResCache)
        /\ C38_Empty(highResCache)
        /\ cacheCall.op = "getCacheStats" =>
              cacheCall.result = <<[lowResCount |-> 0, highResCount |-> 0]>>
        /\ cacheCall.op \in {"getLowResImage", "getHighResImage", "getImage"} =>
              cacheCall.result = Null

\* A load begun before clearCache() is still decoding when the caches are
\* cleared; its onload then stores the image, with no call after the clear.
C38_NoLateStore ==
    ~(/\ callsSinceClear = <<0>>
      /\ cacheCall.op = "onload"
      /\ highResCache[cacheCall.url] = <<HighResImage(1)>>
      /\ loads = {})

\* A step in which the promise of a load settles with null.
C38_LoadFails ==
    /\ Len(resolved') = Len(resolved) + 1
    /\ resolved'[Len(resolved')].value = Null

\* The second half of C38: a load that fails (response not ok, exception,
\* decode error) resolves with null and leaves both caches as they were.
C38_FailedLoadLeavesCaches ==
    [][/\ C38_LoadFails =>
            <<lowResCache', highResCache'>> = <<lowResCache, highResCache>>
       /\ (cacheCall'.op \in {"response", "onerror"}
           /\ cacheCall'.result \in {<<"notOk">>, <<"throws">>, <<"onerror">>})
          => C38_LoadFails]_vars

\* 0.45 <= x for a double x, with 0.45 the decimal fraction 45/100.
C31_AtLeast045(x) == ~x.neg /\ BigLe(BigTimes(F64One.mag, 45), BigTimes(x.mag, 100))

\* The double one unit in the last place (2^-54) below the literal 0.45:
\* 0.44999999999999996.
C31_Below045 == F64(FALSE, BigSub(F64Literal045.mag, Big(2)))

C31_Records64(P(_)) ==
    \A id \in ItemIds :
        IF lodTransitionState[id] = Null THEN TRUE
        ELSE P(lodTransitionState[id][1])

C31_InRange64(rec) ==
    /\ C31_AtLeast045(rec.imageHeightPercent)
    /\ F64Le(rec.imageHeightPercent, F64One)
    /\ F64Le(F64Zero, rec.textOpacity)
    /\ F64Le(rec.textOpacity, F64One)

\* C31: with transitionSpeed in [0, 1], after any sequence of updateLODState
\* calls with any widths, every record has 0.45 <= imageHeightPercent <= 1
\* and 0 <= textOpacity <= 1.
C31_RecordsInRange ==
    (Le(R(0), transitionSpeed) /\ Le(transitionSpeed, R(1))) =>
        C31_Records64(C31_InRange64)

C31_InRangeUpToRounding(rec) ==
    /\ F64Le(C31_Below045, rec.imageHeightPercent)
    /\ F64Le(rec.imageHeightPercent, F64One)
    /\ F64Le(F64Zero, rec.textOpacity)
    /\ F64Le(rec.textOpacity, F64One)
    /\ F64Lt(rec.imageHeightPercent, F64Literal045) =>
          /\ transitionSpeed = R(1)
          /\ rec.imageHeightPercent = C31_Below045
          /\ rec.targetMode = "detail"

\* C31 as the code has it: with transitionSpeed in [0, 1] every record has
\* 0 <= textOpacity <= 1 and imageHeightPercent <= 1, and imageHeightPercent
\* is at least 0.45 up to one rounding step: it is never below
\* 0.44999999999999996 (0.45 - 2^-54), and it is that value only after a
\* switch to detail mode with transitionSpeed 1.  F64Literal045 is the double
\* nearest to 45/100, and every imageHeightPercent is a multiple of 2^-54, so
\* that halving a difference is exact on the grid of the model.
C31_RecordsInRangeUpToRounding ==
    /\ BigLe(BigTimes(F64One.mag, 45), BigAdd(BigTimes(F64Literal045.mag, 100), Big(100)))
    /\ BigLe(BigTimes(F64Literal045.mag, 100), BigAdd(BigTimes(F64One.mag, 45), Big(100)))
    /\ (Le(R(0), transitionSpeed) /\ Le(transitionSpeed, R(1))) =>
          /\ C31_Records64(C31_InRangeUpToRounding)
          /\ C31_Records64(LAMBDA rec : rec.imageHeightPercent.mag[1] % 2 = 0)

\* transitionSpeed 1: item "a" is created image-only (1.0) and then updated
\* with a detail width: 1.0 + (0.45 - 1.0) * 1 is 0.44999999999999996.
C31_Witness ==
    /\ transitionSpeed = R(1)
    /\ nLODCalls = 2
    /\ lodCall = LODCall("updateLODState", "a", R(80))
    /\ lodTransitionState["a"] =
          <<[imageHeightPercent |-> C31_Below045, textOpacity |-> F64One,
             targetMode |-> "detail"]>>

\* transitionSpeed 1/2: created in detail mode (0.45), then one image-only
\* update: 0.45 + (1.0 - 0.45) / 2 is 0.7250000000000001, the exact 0.725 plus
\* rounding; 9907919180215094 units of 2^-55 above the literal 0.45.
C31_HalfwayIsRounded ==
    ~(/\ transitionSpeed = <<1, 2>>
      /\ nLODCalls = 2
      /\ lodCall = LODCall("updateLODState", "a", R(79))
      /\ lodTransitionState["a"][1].imageHeightPercent =
            F64(FALSE, BigAdd(F64Literal045.mag, <<13110, 3276, 13107, 2252, 0>>)))

====
